---- MODULE Spec2Model ----
(***************************************************************************)
(* Futside back end: the match lifecycle handlers of src/main.py           *)
(* (create_match, join_match, start_match, update_score), the record store *)
(* they read and write, and the MQTT publisher they call.                  *)
(*                                                                         *)
(* Every handler opens its own SQLAlchemy session (get_db), so what a      *)
(* request has read is a private snapshot; what it writes reaches the      *)
(* shared tables at db.commit().  A request is therefore a small process:  *)
(* one step per database round trip, in the order of the handler's         *)
(* statements.                                                             *)
(***************************************************************************)
EXTENDS Integers, Sequences, FiniteSets, TLC

\* ------------------------------------------------------------------ bounds
NumUsers == 2
NumReqs == 2
NumSeqReqs == 3
MaxDay == 2
MaxScore == 1
MaxPlayers == 2
MaxMatches == 2
MaxTokens == 3

Users == 1..NumUsers
Reqs == 1..NumReqs
SeqReqs == 1..NumSeqReqs
Days == 0..MaxDay
Scores == 0..MaxScore
MatchIds == 1..MaxMatches
TaskIds == 1..NumReqs
\* the users in the store: those who send requests and one more, who only
\* holds a token and subscriptions
Members == 1..(NumUsers + 1)

\* ------------------------------------------------------------------- data
MatchStatusEnum == {"scheduled", "confirmed", "in_progress", "canceled", "completed"}

\* One-character strings stand for the characters of a city name.
LowerChar(c) ==
    CASE c = "A" -> "a"
      [] c = "B" -> "b"
      [] c = "S" -> "s"
      [] OTHER -> c

\* str.lower()
Lower(s) == [i \in DOMAIN s |-> LowerChar(s[i])]

\* db_field.city.lower().replace(' ', '-')
city_normalized(city) ==
    [i \in DOMAIN city |-> IF Lower(city)[i] = " " THEN "-" ELSE Lower(city)[i]]

MQTT_TOPIC_REGIONAL_BASE == "futside/matches"
MQTT_TOPIC_MATCH_BASE == "futside/match"

\* db.query(Match)...first() returning None
MatchNone ==
    [id |-> 0, field_id |-> 0, creator_id |-> 0, date |-> 0, max_players |-> 0,
     status |-> "none", score_a |-> 0, score_b |-> 0]

\* NewMatch with the creator's match already confirmed
NewMatchConfirmed(id, field_id, creator_id, date, max_players) ==
    [id |-> id, field_id |-> field_id, creator_id |-> creator_id, date |-> date,
     max_players |-> max_players, status |-> "confirmed", score_a |-> 0, score_b |-> 0]

\* Match(**match.model_dump(), creator_id=...) with the column defaults
NewMatch(id, field_id, creator_id, date, max_players) ==
    [id |-> id, field_id |-> field_id, creator_id |-> creator_id, date |-> date,
     max_players |-> max_players, status |-> "scheduled", score_a |-> 0, score_b |-> 0]

\* a token, a city or an email is the sequence of its characters; None is
\* SQL NULL
None == <<"NULL">>

NoPayload ==
    [field_id |-> 0, date |-> 0, max_players |-> 0, score_a |-> 0, score_b |-> 0,
     fcm_token |-> None, city |-> None, email |-> 0, password_ok |-> FALSE]

NoResult == [code |-> 0, detail |-> ""]
HTTPException(code, detail) == [code |-> code, detail |-> detail]

\* the responses the handlers give (the details are in the handlers' words,
\* without their accents)
MatchNotFound == HTTPException(404, "Partida nao encontrada")
\* f"Quadra com id {match.field_id} nao encontrada"
FieldNotFound(field_id) ==
    HTTPException(404, "Quadra com id " \o ToString(field_id) \o " nao encontrada")
FieldForbidden == HTTPException(403, "Apenas locadores podem criar quadras")
StartForbidden == HTTPException(403, "Apenas o criador pode iniciar a partida.")
ScoreForbidden == HTTPException(403, "Apenas o criador pode alterar o placar.")
Past == HTTPException(400, "Nao pode entrar em partidas passadas")
Conflict == HTTPException(400, "Ja esta na partida")
CapacityExceeded == HTTPException(400, "Partida cheia")
Unauthorized == HTTPException(401, "Email ou senha incorretos")
EmailTaken == HTTPException(400, "Email ja registado")

\* an exception that leaves a handler: the server answers 500
InternalServerError == HTTPException(500, "Internal Server Error")

\* a handler that returns: 204 for update_score (its status_code), else 200
Ok(op) == [code |-> IF op = "update_score" THEN 204 ELSE 200, detail |-> ""]

VARIABLES
    today,           \* date.today()
    field,           \* table field: sequence of rows, id = index
    match,           \* table match: sequence of rows, id = index
    player_match,    \* table player_match: sequence of rows, id = index
    fcm_token,       \* user.fcm_token of each user
    subscription,    \* table user_region_subscription: sequence of rows
    mqtt_connected,  \* the global set by on_connect / on_disconnect
    published,       \* what mqtt_client.publish accepted, in order
    bg_tasks,        \* BackgroundTasks: the scheduled push dispatches
    req,             \* the requests being served
    client_state,    \* what mqtt_client.publish does when it is called
    firebase_initialized,  \* the global set when the module is loaded
    dispatched,      \* the push dispatches that ran: one record per task
    locador          \* table locador: sequence of rows, id = index

vars == <<today, field, match, player_match, fcm_token, subscription,
          mqtt_connected, published, bg_tasks, req,
          client_state, firebase_initialized, dispatched, locador>>

\* -------------------------------------------------------------- requests
ReqIdle ==
    [op |-> "none", pc |-> "idle", user |-> 0, match_id |-> 0, payload |-> NoPayload,
     db_match |-> MatchNone, today_read |-> 0, player_count |-> 0,
     subscribed_user_ids |-> {}, row |-> 0,
     committed |-> FALSE, npub |-> 0, nsched |-> 0, result |-> NoResult,
     pub_ret |-> "none", pub_env |-> [connected |-> FALSE, outcome |-> "none"],
     current_user |-> None, pending |-> {}, locked |-> {}, cleared |-> {},
     existing_sub |-> 0]

\* The statements of the handlers of tokens, subscriptions and accounts.
AccountProgram(op) ==
    CASE op = "register_fcm_token" -> <<"load", "clear", "clear_rows", "commit">>
      [] op = "subscribe_to_region" -> <<"existing", "commit">>
      [] op = "unsubscribe_from_region" -> <<"existing", "commit">>
      [] op = "login_for_access_token" -> <<"load", "existing", "commit">>
      [] op = "create_user" -> <<"load", "commit">>
      [] op = "create_field" -> <<"load", "commit">>
      [] OTHER -> <<>>

\* Program with the publish moved before the commit
ProgramPublishFirst(op) ==
    CASE op = "start_match" -> <<"load", "publish", "commit">>
      [] op = "update_score" -> <<"load", "publish", "commit">>
      [] op = "join_match" -> <<"load", "existing", "count", "publish", "commit">>
      [] op = "create_match" ->
            <<"load", "subscriptions", "tokens", "commit", "refresh", "players", "publish">>
      [] OTHER -> AccountProgram(op)

\* Program with join_match counting the roster before looking for the user
ProgramCountFirst(op) ==
    CASE op = "start_match" -> <<"load", "commit", "publish">>
      [] op = "update_score" -> <<"load", "commit", "publish">>
      [] op = "join_match" -> <<"load", "count", "existing", "commit", "publish">>
      [] op = "create_match" ->
            <<"load", "commit", "refresh", "players", "publish", "subscriptions", "tokens">>
      [] OTHER -> AccountProgram(op)

\* The statements of each handler, one label per database round trip or
\* side effect, in source order.
Program(op) ==
    CASE op = "start_match" -> <<"load", "commit", "publish">>
      [] op = "update_score" -> <<"load", "commit", "publish">>
      [] op = "join_match" -> <<"load", "existing", "count", "commit", "publish">>
      [] op = "create_match" ->
            <<"load", "commit", "refresh", "players", "publish", "subscriptions", "tokens">>
      [] OTHER -> AccountProgram(op)

NextPc(op, pc) ==
    LET p == Program(op)
        i == CHOOSE k \in DOMAIN p : p[k] = pc
    IN  IF i = Len(p) THEN "done" ELSE p[i + 1]

\* raise HTTPException / return
Respond(q, res) == [q EXCEPT !.pc = "done", !.result = res]

\* fall through to the next statement; falling off the end is the return
Continue(q) ==
    LET n == NextPc(q.op, q.pc)
    IN  IF n = "done" THEN Respond(q, Ok(q.op)) ELSE [q EXCEPT !.pc = n]

InFlight(r) == req[r].pc \notin {"idle", "done"}
At(r, op, pc) == req[r].op = op /\ req[r].pc = pc

\* db.query(Match).filter(Match.id == match_id).first()
QueryMatch(id) == IF id \in DOMAIN match THEN match[id] ELSE MatchNone

\* the rows of a table
Rows(t) == {t[i] : i \in DOMAIN t}

\* the table locador when each of the first n users has a Locador row
\* (create_user adds one for every user it creates)
LocadorRows(n) == [u \in 1..n |-> [user_id |-> u]]

\* list(a_set): the elements, each once, in an order the program does not
\* choose
ListsOf(S) ==
    {l \in [1..Cardinality(S) -> S] : \A x \in S : \E i \in DOMAIN l : l[i] = x}

\* db.query(PlayerMatch).filter(PlayerMatch.match_id == match_id)
Roster(id) == {i \in DOMAIN player_match : player_match[i].match_id = id}

\* ---------------------------------------------------------------- MQTT
\* the client made by setup_mqtt_client when the module is loaded
mqtt_client == <<"paho.Client">>

\* mqtt_client.publish: returns MQTT_ERR_SUCCESS, returns another code, or
\* raises
ClientStates == {"success", "error", "raises"}

\* publish_returns without the except clause
publish_returns_uncaught(connected, client, outcome) ==
    IF ~connected \/ client = None
    THEN "False"
    ELSE CASE outcome = "success" -> "True"
           [] outcome = "error" -> "False"
           [] outcome = "raises" -> "raise"

\* what publish_mqtt_message gives back to the handler that called it
publish_returns(connected, client, outcome) ==
    IF ~connected \/ client = None
    THEN "False"
    ELSE CASE outcome = "success" -> "True"
           [] outcome = "error" -> "False"
           [] outcome = "raises" -> "False"

\* publish_mqtt_message dropping a message equal to the last one accepted
publish_mqtt_message_dedup(topic, payload) ==
    LET message == [topic |-> topic, payload |-> payload, qos |-> 1]
    IN  IF /\ publish_returns(mqtt_connected, mqtt_client, client_state) = "True"
           /\ (published = <<>> \/ published[Len(published)] # message)
        THEN Append(published, message)
        ELSE published

\* publish_mqtt_message: the log of what the client accepted, after the call
publish_mqtt_message(topic, payload) ==
    IF publish_returns(mqtt_connected, mqtt_client, client_state) = "True"
    THEN Append(published, [topic |-> topic, payload |-> payload, qos |-> 1])
    ELSE published

\* AfterPublish with every handler scheduling a push dispatch once it has
\* published
AfterPublishAndSchedule(q) ==
    LET ret == publish_returns(mqtt_connected, mqtt_client, client_state)
        p == [q EXCEPT !.npub = @ + 1, !.pub_ret = ret, !.nsched = @ + 1,
                       !.pub_env = [connected |-> mqtt_connected,
                                    outcome |-> client_state]]
    IN  IF ret = "raise" THEN Respond(p, InternalServerError) ELSE Continue(p)

\* the handler after its call of publish_mqtt_message (it ignores the value)
AfterPublish(q) ==
    LET ret == publish_returns(mqtt_connected, mqtt_client, client_state)
        p == [q EXCEPT !.npub = @ + 1, !.pub_ret = ret,
                       !.pub_env = [connected |-> mqtt_connected,
                                    outcome |-> client_state]]
    IN  IF ret = "raise" THEN Respond(p, InternalServerError) ELSE Continue(p)

\* the return codes of a CONNACK: 0 is connection accepted
ConnackCodes == 0..5

\* on_connect(client, userdata, flags, rc)
on_connect(rc) ==
    /\ mqtt_connected' = (rc = 0)
    /\ UNCHANGED <<today, field, match, player_match, fcm_token,
                   subscription, published, bg_tasks, req,
                   client_state, firebase_initialized, dispatched, locador>>

on_disconnect == /\ mqtt_connected
                 /\ mqtt_connected' = FALSE
                 /\ UNCHANGED <<today, field, match, player_match, fcm_token,
                                subscription, published, bg_tasks, req,
                   client_state, firebase_initialized, dispatched, locador>>

\* the broker or the network changes what publish does
client_change(s) ==
    /\ client_state # s
    /\ client_state' = s
    /\ UNCHANGED <<today, field, match, player_match, fcm_token, subscription,
                   mqtt_connected, published, bg_tasks, req,
                   firebase_initialized, dispatched, locador>>

\* the calendar day advances
Tick == /\ today < MaxDay
        /\ today' = today + 1
        /\ UNCHANGED <<field, match, player_match, fcm_token, subscription,
                       mqtt_connected, published, bg_tasks, req,
                   client_state, firebase_initialized, dispatched, locador>>

\* ------------------------------------------------------------ the session
\* Flush writing every column of the row as the session holds it
FlushAll(row, loaded, assigned) == assigned

\* Session.commit() after attribute assignments on a loaded row: the unit of
\* work compares each attribute with the value it loaded and emits
\* UPDATE match SET <only the columns that differ> WHERE id = :id.
Flush(row, loaded, assigned) ==
    [c \in DOMAIN row |-> IF assigned[c] # loaded[c] THEN assigned[c] ELSE row[c]]

\* NotCreator with the check dropped
NotCreatorNever(db_match, user) == FALSE

\* db_match.creator_id != current_user.id
NotCreator(db_match, user) == db_match.creator_id # user

\* IsPast rejecting the matches of today as well
IsPastOrToday(db_match, day) == db_match.date <= day

\* db_match.date < date.today()
IsPast(db_match, day) == db_match.date < day

\* player_count >= db_match.max_players
IsFull(player_count, db_match) == player_count >= db_match.max_players

\* a request slot is free; slots are taken in order
Free(r) == /\ req[r].pc = "idle"
           /\ \A q \in DOMAIN req : q < r => req[q].pc # "idle"

\* a request arrives: FastAPI resolves current_user and the path and body
\* (one id past the last match stands for every id that does not resolve)
Issue(r, op, u, m, p) ==
    /\ Free(r)
    /\ u \in DOMAIN fcm_token \cup {0}
    /\ m <= Len(match) + 1
    /\ req' = [req EXCEPT ![r] = [ReqIdle EXCEPT !.op = op, !.pc = Program(op)[1],
                                                !.user = u, !.match_id = m,
                                                !.payload = p]]
    /\ UNCHANGED <<today, field, match, player_match, fcm_token, subscription,
                   mqtt_connected, published, bg_tasks,
                   client_state, firebase_initialized, dispatched, locador>>

ScorePayloads == {[NoPayload EXCEPT !.score_a = a, !.score_b = b] : a \in Scores, b \in Scores}

\* ------------------------------------------------------------ start_match
issue_start_match(r, u, m) == Issue(r, "start_match", u, m, NoPayload)

start_match_load(r) ==
    /\ At(r, "start_match", "load")
    /\ LET db_match == QueryMatch(req[r].match_id)
           q == [req[r] EXCEPT !.db_match = db_match]
       IN  req' = [req EXCEPT ![r] =
                IF db_match = MatchNone
                THEN Respond(q, MatchNotFound)
                ELSE IF NotCreator(db_match, q.user)
                THEN Respond(q, StartForbidden)
                ELSE Continue(q)]
    /\ UNCHANGED <<today, field, match, player_match, fcm_token, subscription,
                   mqtt_connected, published, bg_tasks,
                   client_state, firebase_initialized, dispatched, locador>>

start_match_commit(r) ==
    /\ At(r, "start_match", "commit")
    /\ LET q == req[r]
           assigned == [q.db_match EXCEPT !.status = "in_progress"]
       IN  /\ match' = [match EXCEPT ![q.match_id] = Flush(@, q.db_match, assigned)]
           /\ req' = [req EXCEPT ![r] = Continue([q EXCEPT !.committed = TRUE])]
    /\ UNCHANGED <<today, field, player_match, fcm_token, subscription,
                   mqtt_connected, published, bg_tasks,
                   client_state, firebase_initialized, dispatched, locador>>

start_match_publish(r) ==
    /\ At(r, "start_match", "publish")
    /\ LET q == req[r]
           lobby_topic == <<MQTT_TOPIC_MATCH_BASE, q.match_id, "updates">>
           mqtt_payload == [event |-> "match_started", data |-> [match_id |-> q.match_id]]
       IN  /\ published' = publish_mqtt_message(lobby_topic, mqtt_payload)
           /\ req' = [req EXCEPT ![r] = AfterPublish(q)]
    /\ UNCHANGED <<today, field, match, player_match, fcm_token, subscription,
                   mqtt_connected, bg_tasks,
                   client_state, firebase_initialized, dispatched, locador>>

\* ----------------------------------------------------------- update_score
issue_update_score(r, u, m, p) == Issue(r, "update_score", u, m, p)

update_score_load(r) ==
    /\ At(r, "update_score", "load")
    /\ LET db_match == QueryMatch(req[r].match_id)
           q == [req[r] EXCEPT !.db_match = db_match]
       IN  req' = [req EXCEPT ![r] =
                IF db_match = MatchNone
                THEN Respond(q, MatchNotFound)
                ELSE IF NotCreator(db_match, q.user)
                THEN Respond(q, ScoreForbidden)
                ELSE Continue(q)]
    /\ UNCHANGED <<today, field, match, player_match, fcm_token, subscription,
                   mqtt_connected, published, bg_tasks,
                   client_state, firebase_initialized, dispatched, locador>>

update_score_commit(r) ==
    /\ At(r, "update_score", "commit")
    /\ LET q == req[r]
           assigned == [q.db_match EXCEPT !.score_a = q.payload.score_a,
                                          !.score_b = q.payload.score_b]
       IN  /\ match' = [match EXCEPT ![q.match_id] = Flush(@, q.db_match, assigned)]
           /\ req' = [req EXCEPT ![r] = Continue([q EXCEPT !.committed = TRUE])]
    /\ UNCHANGED <<today, field, player_match, fcm_token, subscription,
                   mqtt_connected, published, bg_tasks,
                   client_state, firebase_initialized, dispatched, locador>>

update_score_publish(r) ==
    /\ At(r, "update_score", "publish")
    /\ LET q == req[r]
           live_topic == <<MQTT_TOPIC_MATCH_BASE, q.match_id, "live_updates">>
           mqtt_payload == [event |-> "score_update",
                            data |-> [score_a |-> q.payload.score_a,
                                      score_b |-> q.payload.score_b]]
       IN  /\ published' = publish_mqtt_message(live_topic, mqtt_payload)
           /\ req' = [req EXCEPT ![r] = AfterPublish(q)]
    /\ UNCHANGED <<today, field, match, player_match, fcm_token, subscription,
                   mqtt_connected, bg_tasks,
                   client_state, firebase_initialized, dispatched, locador>>

\* ------------------------------------------------------------- join_match
\* join_match and create_match are async def bodies without an await: inside
\* one event loop two of them do not interleave.  Their steps interleave
\* when several workers or instances serve the same database; start_match
\* and update_score are sync handlers, run in the thread pool.
issue_join_match(r, u, m) == Issue(r, "join_match", u, m, NoPayload)

join_match_load(r) ==
    /\ At(r, "join_match", "load")
    /\ LET db_match == QueryMatch(req[r].match_id)
           q == [req[r] EXCEPT !.db_match = db_match, !.today_read = today]
       IN  req' = [req EXCEPT ![r] =
                IF db_match = MatchNone
                THEN Respond(q, MatchNotFound)
                ELSE IF IsPast(db_match, today)
                THEN Respond(q, Past)
                ELSE Continue(q)]
    /\ UNCHANGED <<today, field, match, player_match, fcm_token, subscription,
                   mqtt_connected, published, bg_tasks,
                   client_state, firebase_initialized, dispatched, locador>>

join_match_existing(r) ==
    /\ At(r, "join_match", "existing")
    /\ LET q == req[r]
           existing_player == {i \in Roster(q.match_id) : player_match[i].user_id = q.user}
       IN  req' = [req EXCEPT ![r] =
                IF existing_player # {}
                THEN Respond(q, Conflict)
                ELSE Continue(q)]
    /\ UNCHANGED <<today, field, match, player_match, fcm_token, subscription,
                   mqtt_connected, published, bg_tasks,
                   client_state, firebase_initialized, dispatched, locador>>

join_match_count(r) ==
    /\ At(r, "join_match", "count")
    /\ LET player_count == Cardinality(Roster(req[r].match_id))
           q == [req[r] EXCEPT !.player_count = player_count]
       IN  req' = [req EXCEPT ![r] =
                IF IsFull(player_count, q.db_match)
                THEN Respond(q, CapacityExceeded)
                ELSE Continue(q)]
    /\ UNCHANGED <<today, field, match, player_match, fcm_token, subscription,
                   mqtt_connected, published, bg_tasks,
                   client_state, firebase_initialized, dispatched, locador>>

join_match_commit(r) ==
    /\ At(r, "join_match", "commit")
    /\ LET q == req[r]
           new_player_in_match == [match_id |-> q.match_id, user_id |-> q.user]
       IN  /\ player_match' = Append(player_match, new_player_in_match)
           /\ req' = [req EXCEPT ![r] =
                Continue([q EXCEPT !.committed = TRUE, !.row = Len(player_match) + 1])]
    /\ UNCHANGED <<today, field, match, fcm_token, subscription,
                   mqtt_connected, published, bg_tasks,
                   client_state, firebase_initialized, dispatched, locador>>

join_match_publish(r) ==
    /\ At(r, "join_match", "publish")
    /\ LET q == req[r]
           match_topic == <<MQTT_TOPIC_MATCH_BASE, q.match_id, "updates">>
           mqtt_payload == [event |-> "player_joined",
                            data |-> [user_id |-> q.user,
                                      player_count |-> q.player_count + 1,
                                      max_players |-> QueryMatch(q.match_id).max_players]]
       IN  /\ published' = publish_mqtt_message(match_topic, mqtt_payload)
           /\ req' = [req EXCEPT ![r] = AfterPublish(q)]
    /\ UNCHANGED <<today, field, match, player_match, fcm_token, subscription,
                   mqtt_connected, bg_tasks,
                   client_state, firebase_initialized, dispatched, locador>>

\* ----------------------------------------------------------- create_match
issue_create_match(r, u, p) == Issue(r, "create_match", u, 0, p)

create_match_load(r) ==
    /\ At(r, "create_match", "load")
    /\ LET q == req[r]
       IN  req' = [req EXCEPT ![r] =
                IF q.payload.field_id \notin DOMAIN field
                THEN Respond(q, FieldNotFound(q.payload.field_id))
                ELSE Continue(q)]
    /\ UNCHANGED <<today, field, match, player_match, fcm_token, subscription,
                   mqtt_connected, published, bg_tasks,
                   client_state, firebase_initialized, dispatched, locador>>

create_match_commit(r) ==
    /\ At(r, "create_match", "commit")
    /\ LET q == req[r]
           id == Len(match) + 1
           db_match == NewMatch(id, q.payload.field_id, q.user, q.payload.date,
                                q.payload.max_players)
       IN  /\ match' = Append(match, db_match)
           /\ req' = [req EXCEPT ![r] =
                Continue([q EXCEPT !.committed = TRUE, !.match_id = id])]
    /\ UNCHANGED <<today, field, player_match, fcm_token, subscription,
                   mqtt_connected, published, bg_tasks,
                   client_state, firebase_initialized, dispatched, locador>>

\* db.refresh(db_match): the SELECT of the row of the match
create_match_refresh(r) ==
    /\ At(r, "create_match", "refresh")
    /\ LET q == req[r]
       IN  req' = [req EXCEPT ![r] =
                Continue([q EXCEPT !.db_match = QueryMatch(q.match_id)])]
    /\ UNCHANGED <<today, field, match, player_match, fcm_token, subscription,
                   mqtt_connected, published, bg_tasks,
                   client_state, firebase_initialized, dispatched, locador>>

\* db.refresh(db_match, attribute_names=['players', 'field']): the SELECT of
\* the players of the match, a statement of its own after the one of the row;
\* MatchOut.model_validate(db_match) takes player_count from it
create_match_players(r) ==
    /\ At(r, "create_match", "players")
    /\ LET q == req[r]
       IN  req' = [req EXCEPT ![r] =
                Continue([q EXCEPT !.player_count = Cardinality(Roster(q.match_id))])]
    /\ UNCHANGED <<today, field, match, player_match, fcm_token, subscription,
                   mqtt_connected, published, bg_tasks,
                   client_state, firebase_initialized, dispatched, locador>>

create_match_publish(r) ==
    /\ At(r, "create_match", "publish")
    /\ LET q == req[r]
           db_field == field[q.payload.field_id]
           regional_topic == <<MQTT_TOPIC_REGIONAL_BASE, city_normalized(db_field.city)>>
           mqtt_payload == [event |-> "new_match",
                            data |-> [match |-> q.db_match,
                                      player_count |-> q.player_count]]
       IN  /\ published' = publish_mqtt_message(regional_topic, mqtt_payload)
           /\ req' = [req EXCEPT ![r] = AfterPublish(q)]
    /\ UNCHANGED <<today, field, match, player_match, fcm_token, subscription,
                   mqtt_connected, bg_tasks,
                   client_state, firebase_initialized, dispatched, locador>>

create_match_subscriptions(r) ==
    /\ At(r, "create_match", "subscriptions")
    /\ LET q == req[r]
           db_field == field[q.payload.field_id]
           subscriptions == {sub \in Rows(subscription) :
                                Lower(sub.city) = Lower(db_field.city)}
       IN  req' = [req EXCEPT ![r] =
                Continue([q EXCEPT !.subscribed_user_ids =
                                        {sub.user_id : sub \in subscriptions}])]
    /\ UNCHANGED <<today, field, match, player_match, fcm_token, subscription,
                   mqtt_connected, published, bg_tasks,
                   client_state, firebase_initialized, dispatched, locador>>

\* NotifiableUsers without the filter on the creator
NotifiableUsersWithCreator(ids, creator) ==
    {u \in ids : fcm_token[u] # None}

\* db.query(User.fcm_token).filter(User.id.in_(subscribed_user_ids),
\*     User.id != current_user.id, User.fcm_token.isnot(None))
NotifiableUsers(ids, creator) ==
    {u \in ids : u # creator /\ fcm_token[u] # None}

create_match_tokens(r) ==
    /\ At(r, "create_match", "tokens")
    /\ LET q == req[r]
           db_field == field[q.payload.field_id]
           users == NotifiableUsers(q.subscribed_user_ids, q.user)
           tokens_to_notify == {u \in users : fcm_token[u] # <<>>}
           set_tokens_to_notify == {fcm_token[u] : u \in tokens_to_notify}
       IN  IF q.subscribed_user_ids # {} /\ tokens_to_notify # {}
           THEN \E unique_tokens_to_notify \in ListsOf(set_tokens_to_notify) :
                /\ bg_tasks' = Append(bg_tasks,
                        [tokens |-> unique_tokens_to_notify, matchId |-> q.match_id,
                         city |-> db_field.city, req |-> r])
                /\ req' = [req EXCEPT ![r] = Continue([q EXCEPT !.nsched = @ + 1])]
           ELSE /\ bg_tasks' = bg_tasks
                /\ req' = [req EXCEPT ![r] = Continue(q)]
    /\ UNCHANGED <<today, field, match, player_match, fcm_token, subscription,
                   mqtt_connected, published,
                   client_state, firebase_initialized, dispatched, locador>>

\* ----------------------------------------------------- register_fcm_token
TokenPayloads(tokens) == {[NoPayload EXCEPT !.fcm_token = t] : t \in tokens}

issue_register_fcm_token(r, u, p) == Issue(r, "register_fcm_token", u, 0, p)

\* the rows locked by the transactions of other requests
LockedByOthers(r) ==
    UNION {req[q].locked : q \in {x \in DOMAIN req : x # r /\ InFlight(x)}}

\* get_current_user: the session loads the row of the user
register_fcm_token_load(r) ==
    /\ At(r, "register_fcm_token", "load")
    /\ req' = [req EXCEPT ![r] =
            Continue([req[r] EXCEPT !.current_user = fcm_token[req[r].user]])]
    /\ UNCHANGED <<today, field, match, player_match, fcm_token, subscription,
                   mqtt_connected, published, bg_tasks,
                   client_state, firebase_initialized, dispatched, locador>>

\* db.query(User).filter(User.fcm_token == token, User.id != id).update(...):
\* the UPDATE starts; the rows it will visit are the ones that match in the
\* snapshot it takes now (the committed rows)
register_fcm_token_clear(r) ==
    /\ At(r, "register_fcm_token", "clear")
    /\ LET q == req[r]
           matched == {v \in DOMAIN fcm_token :
                          fcm_token[v] = q.payload.fcm_token /\ v # q.user}
       IN  req' = [req EXCEPT ![r] =
                IF matched = {}
                THEN Continue([q EXCEPT !.pc = "clear_rows"])
                ELSE Continue([q EXCEPT !.pending = matched])]
    /\ UNCHANGED <<today, field, match, player_match, fcm_token, subscription,
                   mqtt_connected, published, bg_tasks,
                   client_state, firebase_initialized, dispatched, locador>>

\* the UPDATE visits one row of its snapshot, in the order of the scan (any):
\* it waits while another transaction holds the row, then looks at the row
\* as committed by then and only at that row; it takes the row (the change
\* is seen by others at the commit) when the row still matches, and skips it
\* otherwise.  A row that came to match after the snapshot is never visited.
\* The transaction keeps the lock of every row visited, taken or skipped,
\* until it ends.
register_fcm_token_clear_row(r, v) ==
    /\ At(r, "register_fcm_token", "clear_rows")
    /\ LET q == req[r]
           left == q.pending \ {v}
           took == IF fcm_token[v] = q.payload.fcm_token
                   THEN q.cleared \cup {v} ELSE q.cleared
           p == [q EXCEPT !.pending = left, !.locked = @ \cup {v}, !.cleared = took]
       IN  /\ v \in q.pending
           /\ v \notin LockedByOthers(r)
           /\ req' = [req EXCEPT ![r] = IF left = {} THEN Continue(p) ELSE p]
    /\ UNCHANGED <<today, field, match, player_match, fcm_token, subscription,
                   mqtt_connected, published, bg_tasks,
                   client_state, firebase_initialized, dispatched, locador>>

\* the rows the statement r is at may be waiting for: a row of the snapshot
\* of its UPDATE, or its own row when the commit has an UPDATE to emit
\* (the token assigned is not the one loaded)
WaitsOnRows(r) ==
    LET q == req[r]
    IN  IF At(r, "register_fcm_token", "clear_rows") THEN q.pending
        ELSE IF At(r, "register_fcm_token", "commit")
                /\ q.payload.fcm_token # q.current_user THEN {q.user}
        ELSE {}

\* the requests that hold a row r may be waiting for
WaitsFor(r) ==
    {x \in DOMAIN req : x # r /\ InFlight(x) /\ req[x].locked \cap WaitsOnRows(r) # {}}

RECURSIVE WaitsForWithin(_, _)
WaitsForWithin(S, n) ==
    IF n = 0 THEN S
    ELSE WaitsForWithin(S \cup UNION {WaitsFor(x) : x \in S}, n - 1)

\* r waits for a request that waits, directly or not, for r
Deadlocked(r) == r \in WaitsForWithin(WaitsFor(r), Cardinality(DOMAIN req))

\* the database detects the cycle and aborts one of its transactions:
\* OperationalError (deadlock detected) out of the UPDATE of lines 655-658 or
\* out of db.commit(), the changes of the request are rolled back and the
\* request is answered 500
register_fcm_token_deadlock(r) ==
    /\ req[r].op = "register_fcm_token"
    /\ Deadlocked(r)
    /\ req' = [req EXCEPT ![r] =
            Respond([req[r] EXCEPT !.pending = {}, !.locked = {}, !.cleared = {}],
                    InternalServerError)]
    /\ UNCHANGED <<today, field, match, player_match, fcm_token, subscription,
                   mqtt_connected, published, bg_tasks,
                   client_state, firebase_initialized, dispatched, locador>>

\* current_user.fcm_token = payload.fcm_token; db.commit(): the UPDATE of the
\* user's row, when there is one to emit, waits for the transaction that
\* holds the row
register_fcm_token_commit(r) ==
    /\ At(r, "register_fcm_token", "commit")
    /\ LET q == req[r]
           loaded == [fcm_token |-> q.current_user]
           assigned == [fcm_token |-> q.payload.fcm_token]
       IN  /\ assigned # loaded => q.user \notin LockedByOthers(r)
           /\ fcm_token' =
                [v \in DOMAIN fcm_token |->
                    IF v \in q.cleared THEN None
                    ELSE IF v = q.user
                    THEN Flush([fcm_token |-> fcm_token[v]], loaded, assigned).fcm_token
                    ELSE fcm_token[v]]
           /\ req' = [req EXCEPT ![r] =
                Continue([q EXCEPT !.committed = TRUE, !.locked = {}, !.cleared = {}])]
    /\ UNCHANGED <<today, field, match, player_match, subscription,
                   mqtt_connected, published, bg_tasks,
                   client_state, firebase_initialized, dispatched, locador>>

\* ---------------------------------------------------------- subscriptions
default_city == <<"b", "r">>

\* a row that was deleted: its id is not given again
Deleted == [user_id |-> 0, city |-> None]

\* db.query(UserRegionSubscription).filter_by(user_id=..., city=...).first():
\* the id of the row, 0 for None
QuerySubscription(user_id, city) ==
    LET found == {i \in DOMAIN subscription :
                     subscription[i] = [user_id |-> user_id, city |-> city]}
    IN  IF found = {} THEN 0 ELSE CHOOSE i \in found : \A j \in found : i <= j

\* UniqueViolation with the constraint dropped
UniqueViolationNever(row) == FALSE

\* UniqueConstraint('user_id', 'city'): the INSERT of row is refused
UniqueViolation(row) == row \in Rows(subscription)

\* db.add(UserRegionSubscription(...)); db.commit(): the table and the
\* request afterwards (an IntegrityError leaves the handler: 500)
InsertSubscription(r, q, row) ==
    IF UniqueViolation(row)
    THEN /\ subscription' = subscription
         /\ req' = [req EXCEPT ![r] = Respond(q, InternalServerError)]
    ELSE /\ subscription' = Append(subscription, row)
         /\ req' = [req EXCEPT ![r] =
                Continue([q EXCEPT !.committed = TRUE, !.row = Len(subscription) + 1])]

CityPayloads(cities) == {[NoPayload EXCEPT !.city = c] : c \in cities}

issue_subscribe_to_region(r, u, p) == Issue(r, "subscribe_to_region", u, 0, p)

subscribe_to_region_existing(r) ==
    /\ At(r, "subscribe_to_region", "existing")
    /\ LET existing_sub == QuerySubscription(req[r].user, req[r].payload.city)
           q == [req[r] EXCEPT !.existing_sub = existing_sub]
       IN  req' = [req EXCEPT ![r] =
                IF existing_sub # 0 THEN Respond(q, Ok(q.op)) ELSE Continue(q)]
    /\ UNCHANGED <<today, field, match, player_match, fcm_token, subscription,
                   mqtt_connected, published, bg_tasks,
                   client_state, firebase_initialized, dispatched, locador>>

subscribe_to_region_commit(r) ==
    /\ At(r, "subscribe_to_region", "commit")
    /\ InsertSubscription(r, req[r],
            [user_id |-> req[r].user, city |-> req[r].payload.city])
    /\ UNCHANGED <<today, field, match, player_match, fcm_token,
                   mqtt_connected, published, bg_tasks,
                   client_state, firebase_initialized, dispatched, locador>>

issue_unsubscribe_from_region(r, u, p) == Issue(r, "unsubscribe_from_region", u, 0, p)

unsubscribe_from_region_existing(r) ==
    /\ At(r, "unsubscribe_from_region", "existing")
    /\ LET existing_sub == QuerySubscription(req[r].user, req[r].payload.city)
           q == [req[r] EXCEPT !.existing_sub = existing_sub]
       IN  req' = [req EXCEPT ![r] =
                IF existing_sub = 0 THEN Respond(q, Ok(q.op)) ELSE Continue(q)]
    /\ UNCHANGED <<today, field, match, player_match, fcm_token, subscription,
                   mqtt_connected, published, bg_tasks,
                   client_state, firebase_initialized, dispatched, locador>>

\* db.delete(existing_sub); db.commit(): DELETE ... WHERE id = :id
unsubscribe_from_region_commit(r) ==
    /\ At(r, "unsubscribe_from_region", "commit")
    /\ LET q == req[r]
       IN  /\ subscription' = [subscription EXCEPT ![q.existing_sub] = Deleted]
           /\ req' = [req EXCEPT ![r] = Continue([q EXCEPT !.committed = TRUE])]
    /\ UNCHANGED <<today, field, match, player_match, fcm_token,
                   mqtt_connected, published, bg_tasks,
                   client_state, firebase_initialized, dispatched, locador>>

\* ------------------------------------------------- login_for_access_token
\* an email is written as the id of the user who has it, or will get it
LoginPayloads(emails) ==
    {[NoPayload EXCEPT !.email = e, !.password_ok = ok] : e \in emails, ok \in BOOLEAN}

issue_login_for_access_token(r, p) == Issue(r, "login_for_access_token", 0, 0, p)

login_for_access_token_load(r) ==
    /\ At(r, "login_for_access_token", "load")
    /\ LET q == req[r]
       IN  req' = [req EXCEPT ![r] =
                IF q.payload.email \notin DOMAIN fcm_token \/ ~q.payload.password_ok
                THEN Respond(q, Unauthorized)
                ELSE Continue([q EXCEPT !.user = q.payload.email])]
    /\ UNCHANGED <<today, field, match, player_match, fcm_token, subscription,
                   mqtt_connected, published, bg_tasks,
                   client_state, firebase_initialized, dispatched, locador>>

\* _subscribe_user_to_default_region: the query
login_for_access_token_existing(r) ==
    /\ At(r, "login_for_access_token", "existing")
    /\ req' = [req EXCEPT ![r] =
            Continue([req[r] EXCEPT !.existing_sub =
                                        QuerySubscription(req[r].user, default_city)])]
    /\ UNCHANGED <<today, field, match, player_match, fcm_token, subscription,
                   mqtt_connected, published, bg_tasks,
                   client_state, firebase_initialized, dispatched, locador>>

\* _subscribe_user_to_default_region: db.add(new_sub) if there was none;
\* db.commit()
login_for_access_token_commit(r) ==
    /\ At(r, "login_for_access_token", "commit")
    /\ LET q == req[r]
       IN  IF q.existing_sub = 0
           THEN InsertSubscription(r, q, [user_id |-> q.user, city |-> default_city])
           ELSE /\ subscription' = subscription
                /\ req' = [req EXCEPT ![r] = Continue(q)]
    /\ UNCHANGED <<today, field, match, player_match, fcm_token,
                   mqtt_connected, published, bg_tasks,
                   client_state, firebase_initialized, dispatched, locador>>

\* ------------------------------------------------------------ create_user
EmailPayloads(emails) == {[NoPayload EXCEPT !.email = e] : e \in emails}

\* the email is one of a user, or the one the next user will have
issue_create_user(r, p) ==
    /\ p.email <= Len(fcm_token) + 1
    /\ Issue(r, "create_user", 0, 0, p)

create_user_load(r) ==
    /\ At(r, "create_user", "load")
    /\ LET q == req[r]
       IN  req' = [req EXCEPT ![r] =
                IF q.payload.email \in DOMAIN fcm_token
                THEN Respond(q, EmailTaken)
                ELSE Continue(q)]
    /\ UNCHANGED <<today, field, match, player_match, fcm_token, subscription,
                   mqtt_connected, published, bg_tasks,
                   client_state, firebase_initialized, dispatched, locador>>

\* db.add(new_user); db.flush(); db.add(Locador(user_id=new_user.id));
\* _subscribe_user_to_default_region (the new id has no subscription);
\* db.commit().  The email column is unique.
create_user_commit(r) ==
    /\ At(r, "create_user", "commit")
    /\ LET q == req[r]
           id == Len(fcm_token) + 1
       IN  IF q.payload.email \in DOMAIN fcm_token
           THEN /\ fcm_token' = fcm_token
                /\ locador' = locador
                /\ subscription' = subscription
                /\ req' = [req EXCEPT ![r] = Respond(q, InternalServerError)]
           ELSE /\ fcm_token' = Append(fcm_token, None)
                /\ locador' = Append(locador, [user_id |-> id])
                /\ InsertSubscription(r, [q EXCEPT !.user = id],
                                      [user_id |-> id, city |-> default_city])
    /\ UNCHANGED <<today, field, match, player_match,
                   mqtt_connected, published, bg_tasks,
                   client_state, firebase_initialized, dispatched>>

\* ----------------------------------------------------------- create_field
\* the cities of the fields: with or without a space in the name
FieldCities == {<<"B", "r">>, <<"S", " ", "A">>}

issue_create_field(r, u, p) == Issue(r, "create_field", u, 0, p)

\* db.query(Locador).filter(Locador.user_id == current_user.id).first()
create_field_load(r) ==
    /\ At(r, "create_field", "load")
    /\ LET q == req[r]
           found == {i \in DOMAIN locador : locador[i].user_id = q.user}
       IN  req' = [req EXCEPT ![r] =
                IF found = {} THEN Respond(q, FieldForbidden) ELSE Continue(q)]
    /\ UNCHANGED <<today, field, match, player_match, fcm_token, subscription,
                   mqtt_connected, published, bg_tasks,
                   client_state, firebase_initialized, dispatched, locador>>

\* db_field = Field(**field.model_dump(), locador_id=locador.id);
\* db.add(db_field); db.commit(); db.refresh(db_field)
create_field_commit(r) ==
    /\ At(r, "create_field", "commit")
    /\ LET q == req[r]
       IN  /\ field' = Append(field, [city |-> q.payload.city])
           /\ req' = [req EXCEPT ![r] =
                Continue([q EXCEPT !.committed = TRUE, !.row = Len(field) + 1])]
    /\ UNCHANGED <<today, match, player_match, fcm_token, subscription,
                   mqtt_connected, published, bg_tasks,
                   client_state, firebase_initialized, dispatched, locador>>

\* ------------------------------------------ send_batch_push_notifications
\* str.strip()
strip(s) ==
    LET ink == {i \in DOMAIN s : s[i] # " "}
    IN  IF ink = {} THEN <<>>
        ELSE SubSeq(s, CHOOSE i \in ink : \A j \in ink : i <= j,
                       CHOOSE i \in ink : \A j \in ink : i >= j)

\* token and token.strip()
Truthy(token) == token # <<>> /\ strip(token) # <<>>

\* [token.strip() for token in tokens if token and token.strip()]
valid_tokens_of(tokens) ==
    LET kept == SelectSeq(tokens, Truthy)
    IN  [i \in DOMAIN kept |-> strip(kept[i])]

\* messaging.send_each_for_multicast: it raises, or it answers with one
\* outcome per token
ProviderOutcomes(n) ==
    {[raises |-> TRUE, responses |-> <<>>]}
        \cup {[raises |-> FALSE, responses |-> rs] : rs \in [1..n -> BOOLEAN]}

\* the dispatch of a call that ends before the provider is called
NotSent(valid_tokens) ==
    [invoked |-> FALSE, valid_tokens |-> valid_tokens, raised |-> FALSE,
     responses |-> <<>>, success_count |-> 0, failure_count |-> 0, errors |-> {},
     returned |-> "False"]

\* send_batch_push_notifications without the except clause
send_batch_uncaught(initialized, tokens, outcome) ==
    LET valid_tokens == valid_tokens_of(tokens)
        success_count == Cardinality({i \in DOMAIN outcome.responses : outcome.responses[i]})
        failure_count == Len(outcome.responses) - success_count
    IN  IF ~initialized THEN NotSent(<<>>)
        ELSE IF valid_tokens = <<>> THEN NotSent(valid_tokens)
        ELSE IF outcome.raises
        THEN [NotSent(valid_tokens) EXCEPT !.invoked = TRUE, !.raised = TRUE,
                                           !.returned = "raise"]
        ELSE [invoked |-> TRUE, valid_tokens |-> valid_tokens, raised |-> FALSE,
              responses |-> outcome.responses,
              success_count |-> success_count, failure_count |-> failure_count,
              errors |-> IF failure_count > 0
                         THEN {i \in DOMAIN outcome.responses : ~outcome.responses[i]}
                         ELSE {},
              returned |-> IF success_count > 0 THEN "True" ELSE "False"]

\* send_batch_push_notifications(tokens, ...) when the provider does
\* `outcome`: whether the provider was called, with which tokens, the counts
\* and the failed indices it prints, and the value it returns
send_batch_push_notifications(initialized, tokens, outcome) ==
    LET valid_tokens == valid_tokens_of(tokens)
        success_count == Cardinality({i \in DOMAIN outcome.responses : outcome.responses[i]})
        failure_count == Len(outcome.responses) - success_count
    IN  IF ~initialized THEN NotSent(<<>>)
        ELSE IF valid_tokens = <<>> THEN NotSent(valid_tokens)
        ELSE IF outcome.raises
        THEN [NotSent(valid_tokens) EXCEPT !.invoked = TRUE, !.raised = TRUE]
        ELSE [invoked |-> TRUE, valid_tokens |-> valid_tokens, raised |-> FALSE,
              responses |-> outcome.responses,
              success_count |-> success_count, failure_count |-> failure_count,
              errors |-> IF failure_count > 0
                         THEN {i \in DOMAIN outcome.responses : ~outcome.responses[i]}
                         ELSE {},
              returned |-> IF success_count > 0 THEN "True" ELSE "False"]

Dispatched(i) == \E d \in dispatched : d.task = i

\* ResponseSent for tasks that run only while their request is being served
ResponseNotSent(task) ==
    task.req \in DOMAIN req /\ req[task.req].pc # "done"

\* BackgroundTasks run once the response of their request is sent (a task
\* with no request is a direct call)
ResponseSent(task) ==
    task.req \in DOMAIN req => req[task.req].pc = "done"

\* a task of background_tasks runs, once the response of its request is sent
run_background_task(i) ==
    /\ i \in DOMAIN bg_tasks
    /\ ~Dispatched(i)
    /\ ResponseSent(bg_tasks[i])
    /\ LET tokens == bg_tasks[i].tokens
           n == IF firebase_initialized THEN Len(valid_tokens_of(tokens)) ELSE 0
       IN  \E outcome \in ProviderOutcomes(n) :
               /\ dispatched' = dispatched \cup
                    {[task |-> i, tokens |-> tokens, result |->
                        send_batch_push_notifications(firebase_initialized, tokens, outcome)]}
    /\ UNCHANGED <<today, field, match, player_match, fcm_token, subscription,
                   mqtt_connected, published, bg_tasks, req,
                   client_state, firebase_initialized, locador>>

CreatePayloads(fields, dates) ==
    {[NoPayload EXCEPT !.field_id = f, !.date = d, !.max_players = n] :
        f \in fields, d \in dates, n \in 1..MaxPlayers}

\* --------------------------------------------------------- specifications
\* The store when the server starts: one field, one match created earlier by
\* user 1 (any status the status column can hold), an empty roster, the last
\* user subscribed to the field's city.  mqtt_connected is False until
\* on_connect runs.
InitialMatch(dates, statuses) ==
    {[NewMatch(1, 1, 1, d, n) EXCEPT !.status = s] :
        d \in dates, n \in 1..MaxPlayers, s \in statuses}

InitStore(R, dates, statuses) ==
    /\ today = 1
    /\ field = <<[city |-> <<"B", "r">>]>>
    /\ \E m \in InitialMatch(dates, statuses) : match = <<m>>
    /\ player_match = <<>>
    /\ fcm_token = [u \in Users |-> IF u = 1 THEN <<"c">> ELSE <<"t">>]
    /\ subscription = <<[user_id |-> NumUsers, city |-> <<"b", "r">>]>>
    /\ mqtt_connected = FALSE
    /\ published = <<>>
    /\ bg_tasks = <<>>
    /\ req = [r \in R |-> ReqIdle]
    /\ client_state = "success"
    /\ firebase_initialized = TRUE
    /\ dispatched = {}
    /\ locador = LocadorRows(Len(fcm_token))

\* no request is being served
Quiescent == \A q \in DOMAIN req : ~InFlight(q)

\* Spec: the four handlers, served concurrently.
Init == InitStore(Reqs, {1}, MatchStatusEnum)

Next ==
    \/ \E r \in Reqs, u \in Users, m \in MatchIds : issue_start_match(r, u, m)
    \/ \E r \in Reqs, u \in Users, m \in MatchIds, p \in ScorePayloads :
            issue_update_score(r, u, m, p)
    \/ \E r \in Reqs, u \in Users, m \in MatchIds : issue_join_match(r, u, m)
    \/ \E r \in Reqs, u \in Users, p \in CreatePayloads({1, 2}, {1}) :
            issue_create_match(r, u, p)
    \/ \E r \in Reqs, u \in Users, p \in CityPayloads(FieldCities) :
            issue_create_field(r, u, p)
    \/ \E r \in Reqs : create_field_load(r)
    \/ \E r \in Reqs : create_field_commit(r)
    \/ \E r \in Reqs : start_match_load(r)
    \/ \E r \in Reqs : start_match_commit(r)
    \/ \E r \in Reqs : start_match_publish(r)
    \/ \E r \in Reqs : update_score_load(r)
    \/ \E r \in Reqs : update_score_commit(r)
    \/ \E r \in Reqs : update_score_publish(r)
    \/ \E r \in Reqs : join_match_load(r)
    \/ \E r \in Reqs : join_match_existing(r)
    \/ \E r \in Reqs : join_match_count(r)
    \/ \E r \in Reqs : join_match_commit(r)
    \/ \E r \in Reqs : join_match_publish(r)
    \/ \E r \in Reqs : create_match_load(r)
    \/ \E r \in Reqs : create_match_commit(r)
    \/ \E r \in Reqs : create_match_refresh(r)
    \/ \E r \in Reqs : create_match_players(r)
    \/ \E r \in Reqs : create_match_publish(r)
    \/ \E r \in Reqs : create_match_subscriptions(r)
    \/ \E r \in Reqs : create_match_tokens(r)
    \/ \E rc \in ConnackCodes : on_connect(rc)

Spec == Init /\ [][Next]_vars

\* SpecJoin: concurrent join_match requests while the day advances.
InitJoin == InitStore(Reqs, Days, {"scheduled"})

NextJoin ==
    \/ \E r \in Reqs, u \in Users, m \in MatchIds : issue_join_match(r, u, m)
    \/ \E r \in Reqs : join_match_load(r)
    \/ \E r \in Reqs : join_match_existing(r)
    \/ \E r \in Reqs : join_match_count(r)
    \/ \E r \in Reqs : join_match_commit(r)
    \/ \E r \in Reqs : join_match_publish(r)
    \/ \E rc \in ConnackCodes : on_connect(rc)
    \/ Tick

SpecJoin == InitJoin /\ [][NextJoin]_vars

\* SpecSeq: join_match requests served one at a time (a request arrives only
\* when no other is being served).
InitSeq == InitStore(SeqReqs, Days, {"scheduled"})

seq_join_match(r, u, m) == Quiescent /\ issue_join_match(r, u, m)
seq_start_match(r, u, m) == Quiescent /\ issue_start_match(r, u, m)
seq_update_score(r, u, m, p) == Quiescent /\ issue_update_score(r, u, m, p)
seq_create_match(r, u, p) == Quiescent /\ issue_create_match(r, u, p)

NextSeq ==
    \/ \E r \in SeqReqs, u \in Users, m \in MatchIds : seq_join_match(r, u, m)
    \/ \E r \in SeqReqs : join_match_load(r)
    \/ \E r \in SeqReqs : join_match_existing(r)
    \/ \E r \in SeqReqs : join_match_count(r)
    \/ \E r \in SeqReqs : join_match_commit(r)
    \/ \E r \in SeqReqs : join_match_publish(r)
    \/ \E rc \in ConnackCodes : on_connect(rc)
    \/ Tick

SpecSeq == InitSeq /\ [][NextSeq]_vars

\* SpecStart: concurrent start_match requests on a match of any status.
InitStart == InitStore(Reqs, {1}, MatchStatusEnum)

NextStart ==
    \/ \E r \in Reqs, u \in Users, m \in MatchIds : issue_start_match(r, u, m)
    \/ \E r \in Reqs : start_match_load(r)
    \/ \E r \in Reqs : start_match_commit(r)
    \/ \E r \in Reqs : start_match_publish(r)
    \/ \E rc \in ConnackCodes : on_connect(rc)
    \/ on_disconnect

SpecStart == InitStart /\ [][NextStart]_vars

\* SpecNotify: create_match and the push dispatch it schedules, over stores
\* that differ in who is subscribed to which city and who holds which token.
OneReq == {1}
ThreeReqs == 1..3
\* what a user of these stores holds: a token and subscriptions
Profiles ==
    {[fcm_token |-> None, cities |-> <<<<"b", "r">>>>],
     [fcm_token |-> <<>>, cities |-> <<<<"b", "r">>>>],
     [fcm_token |-> <<"t">>, cities |-> <<<<"b", "r">>>>],
     [fcm_token |-> <<" ", "t">>, cities |-> <<<<"b", "r">>>>],
     [fcm_token |-> <<"t">>, cities |-> <<<<"B", "r">>>>],
     [fcm_token |-> <<"u">>, cities |-> << <<"b", "r">>, <<"B", "r">> >>],
     [fcm_token |-> <<"t">>, cities |-> <<<<"s">>>>],
     [fcm_token |-> <<"u">>, cities |-> <<>>]}

\* the table of the users' subscriptions, user after user
RECURSIVE SubscriptionRows(_, _)
SubscriptionRows(choice, u) ==
    IF u = 0 THEN <<>>
    ELSE SubscriptionRows(choice, u - 1)
            \o [i \in DOMAIN choice[u] |-> [user_id |-> u, city |-> choice[u][i]]]

InitNotify ==
    /\ today = 1
    /\ field = <<[city |-> <<"B", "r">>]>>
    /\ match = <<NewMatch(1, 1, 1, 1, 1)>>
    /\ player_match = <<>>
    /\ \E profile \in [Members -> Profiles] :
            /\ fcm_token = [u \in Members |-> profile[u].fcm_token]
            /\ subscription =
                    SubscriptionRows([u \in Members |-> profile[u].cities], NumUsers + 1)
    /\ mqtt_connected = FALSE
    /\ published = <<>>
    /\ bg_tasks = <<>>
    /\ req = [r \in OneReq |-> ReqIdle]
    /\ client_state = "success"
    /\ firebase_initialized \in BOOLEAN
    /\ dispatched = {}
    /\ locador = LocadorRows(Len(fcm_token))

NextNotify ==
    \/ \E r \in OneReq, u \in Users, p \in CreatePayloads({1}, {1}) :
            issue_create_match(r, u, p)
    \/ \E r \in OneReq : create_match_load(r)
    \/ \E r \in OneReq : create_match_commit(r)
    \/ \E r \in OneReq : create_match_refresh(r)
    \/ \E r \in OneReq : create_match_players(r)
    \/ \E r \in OneReq : create_match_publish(r)
    \/ \E r \in OneReq : create_match_subscriptions(r)
    \/ \E r \in OneReq : create_match_tokens(r)
    \/ \E i \in TaskIds : run_background_task(i)

SpecNotify == InitNotify /\ [][NextNotify]_vars

\* SpecPush: send_batch_push_notifications called on any list of at most
\* MaxTokens tokens.
PushTokens == {<<>>, <<" ">>, <<"t">>, <<" ", "t">>, <<"u">>}
TokenLists == UNION {[1..n -> PushTokens] : n \in 0..MaxTokens}

InitPush ==
    /\ today = 1
    /\ field = <<[city |-> <<"B", "r">>]>>
    /\ match = <<NewMatch(1, 1, 1, 1, 1)>>
    /\ player_match = <<>>
    /\ fcm_token = [u \in Users |-> None]
    /\ subscription = <<>>
    /\ mqtt_connected = FALSE
    /\ published = <<>>
    /\ \E tokens \in TokenLists :
            bg_tasks = <<[tokens |-> tokens, matchId |-> 1, city |-> <<"B", "r">>,
                          req |-> 0]>>
    /\ req = [r \in OneReq |-> ReqIdle]
    /\ client_state = "success"
    /\ firebase_initialized \in BOOLEAN
    /\ dispatched = {}
    /\ locador = LocadorRows(Len(fcm_token))

NextPush == \E i \in TaskIds : run_background_task(i)

SpecPush == InitPush /\ [][NextPush]_vars

\* the store with the given tokens and subscriptions, nothing else going on
InitAccounts(R, tokens, subscriptions) ==
    /\ today = 1
    /\ field = <<[city |-> <<"B", "r">>]>>
    /\ match = <<NewMatch(1, 1, 1, 1, 1)>>
    /\ player_match = <<>>
    /\ fcm_token = tokens
    /\ subscription = subscriptions
    /\ mqtt_connected = FALSE
    /\ published = <<>>
    /\ bg_tasks = <<>>
    /\ req = [r \in R |-> ReqIdle]
    /\ client_state = "success"
    /\ firebase_initialized = TRUE
    /\ dispatched = {}
    /\ locador = LocadorRows(Len(fcm_token))

\* SpecRegister: three concurrent register_fcm_token requests, on three
\* users who hold a token or none.
RegisterTokens == {<<"t">>, <<"u">>}

\* no token is held by two users when the server starts
InitRegister ==
    \E tokens \in [Members -> {None} \cup RegisterTokens] :
        /\ \A u \in Members, v \in Members :
              (tokens[u] = tokens[v] /\ tokens[u] # None) => u = v
        /\ InitAccounts(ThreeReqs, tokens, <<>>)

NextRegister ==
    \/ \E r \in ThreeReqs, u \in Members, p \in TokenPayloads(RegisterTokens) :
            issue_register_fcm_token(r, u, p)
    \/ \E r \in ThreeReqs : register_fcm_token_load(r)
    \/ \E r \in ThreeReqs : register_fcm_token_clear(r)
    \/ \E r \in ThreeReqs, v \in Members : register_fcm_token_clear_row(r, v)
    \/ \E r \in ThreeReqs : register_fcm_token_deadlock(r)
    \/ \E r \in ThreeReqs : register_fcm_token_commit(r)

SpecRegister == InitRegister /\ [][NextRegister]_vars

\* SpecSubscribe: concurrent subscribe_to_region, unsubscribe_from_region,
\* login_for_access_token and create_user requests, on a table where every
\* user, or no user, is subscribed to the default city.
Cities == {<<"b", "r">>, <<"B", "r">>}

InitSubscribe ==
    \E cities \in {<<>>, <<default_city>>} :
        InitAccounts(Reqs, [u \in Users |-> None],
                     SubscriptionRows([u \in Users |-> cities], NumUsers))

NextSubscribe ==
    \/ \E r \in Reqs, u \in Members, p \in CityPayloads(Cities) :
            issue_subscribe_to_region(r, u, p)
    \/ \E r \in Reqs, u \in Members, p \in CityPayloads(Cities) :
            issue_unsubscribe_from_region(r, u, p)
    \/ \E r \in Reqs, p \in LoginPayloads(Members) : issue_login_for_access_token(r, p)
    \/ \E r \in Reqs, p \in EmailPayloads(Members) : issue_create_user(r, p)
    \/ \E r \in Reqs : subscribe_to_region_existing(r)
    \/ \E r \in Reqs : subscribe_to_region_commit(r)
    \/ \E r \in Reqs : unsubscribe_from_region_existing(r)
    \/ \E r \in Reqs : unsubscribe_from_region_commit(r)
    \/ \E r \in Reqs : login_for_access_token_load(r)
    \/ \E r \in Reqs : login_for_access_token_existing(r)
    \/ \E r \in Reqs : login_for_access_token_commit(r)
    \/ \E r \in Reqs : create_user_load(r)
    \/ \E r \in Reqs : create_user_commit(r)

SpecSubscribe == InitSubscribe /\ [][NextSubscribe]_vars

\* SpecDispatch: create_match requests, one after the other, on a field whose
\* city has a subscriber with a token, and the background tasks they
\* schedule, which run while later requests are served.  The event loop
\* runs the tasks: a task that can run is eventually run.
InitDispatch ==
    /\ today = 1
    /\ field = <<[city |-> <<"B", "r">>]>>
    /\ match = <<>>
    /\ player_match = <<>>
    /\ fcm_token = [u \in Users |-> IF u = 1 THEN <<"c">> ELSE <<"t">>]
    /\ subscription = <<[user_id |-> NumUsers, city |-> <<"b", "r">>]>>
    /\ mqtt_connected = FALSE
    /\ published = <<>>
    /\ bg_tasks = <<>>
    /\ req = [r \in Reqs |-> ReqIdle]
    /\ client_state = "success"
    /\ firebase_initialized \in BOOLEAN
    /\ dispatched = {}
    /\ locador = LocadorRows(Len(fcm_token))

NextDispatch ==
    \/ \E r \in Reqs, u \in Users, p \in CreatePayloads({1}, {1}) :
            seq_create_match(r, u, p)
    \/ \E r \in Reqs : create_match_load(r)
    \/ \E r \in Reqs : create_match_commit(r)
    \/ \E r \in Reqs : create_match_refresh(r)
    \/ \E r \in Reqs : create_match_players(r)
    \/ \E r \in Reqs : create_match_publish(r)
    \/ \E r \in Reqs : create_match_subscriptions(r)
    \/ \E r \in Reqs : create_match_tokens(r)
    \/ \E i \in TaskIds : run_background_task(i)

SpecDispatch ==
    /\ InitDispatch
    /\ [][NextDispatch]_vars
    /\ WF_vars(\E i \in TaskIds : run_background_task(i))

\* SpecPublish: as SpecOutage, with several requests served one at a time.
InitPublish == InitStore(Reqs, {1}, {"scheduled"})

NextPublish ==
    \/ \E r \in Reqs, u \in Users, m \in MatchIds : seq_start_match(r, u, m)
    \/ \E r \in Reqs, u \in Users, m \in MatchIds, p \in ScorePayloads :
            seq_update_score(r, u, m, p)
    \/ \E r \in Reqs, u \in Users, m \in MatchIds : seq_join_match(r, u, m)
    \/ \E r \in Reqs, u \in Users, p \in CreatePayloads({1}, {1}) :
            seq_create_match(r, u, p)
    \/ \E r \in Reqs : start_match_load(r)
    \/ \E r \in Reqs : start_match_commit(r)
    \/ \E r \in Reqs : start_match_publish(r)
    \/ \E r \in Reqs : update_score_load(r)
    \/ \E r \in Reqs : update_score_commit(r)
    \/ \E r \in Reqs : update_score_publish(r)
    \/ \E r \in Reqs : join_match_load(r)
    \/ \E r \in Reqs : join_match_existing(r)
    \/ \E r \in Reqs : join_match_count(r)
    \/ \E r \in Reqs : join_match_commit(r)
    \/ \E r \in Reqs : join_match_publish(r)
    \/ \E r \in Reqs : create_match_load(r)
    \/ \E r \in Reqs : create_match_commit(r)
    \/ \E r \in Reqs : create_match_refresh(r)
    \/ \E r \in Reqs : create_match_players(r)
    \/ \E r \in Reqs : create_match_publish(r)
    \/ \E r \in Reqs : create_match_subscriptions(r)
    \/ \E r \in Reqs : create_match_tokens(r)
    \/ \E rc \in ConnackCodes : on_connect(rc)
    \/ on_disconnect
    \/ \E s \in ClientStates : client_change(s)

SpecPublish == InitPublish /\ [][NextPublish]_vars

\* SpecOutage: one request of any of the four handlers, while the broker
\* connection comes and goes and the client's publish succeeds, returns an
\* error code or raises.
InitOutage == InitStore(OneReq, {1}, {"scheduled"})

NextOutage ==
    \/ \E r \in OneReq, u \in Users, m \in MatchIds : issue_start_match(r, u, m)
    \/ \E r \in OneReq, u \in Users, m \in MatchIds, p \in ScorePayloads :
            issue_update_score(r, u, m, p)
    \/ \E r \in OneReq, u \in Users, m \in MatchIds : issue_join_match(r, u, m)
    \/ \E r \in OneReq, u \in Users, p \in CreatePayloads({1}, {1}) :
            issue_create_match(r, u, p)
    \/ \E r \in OneReq : start_match_load(r)
    \/ \E r \in OneReq : start_match_commit(r)
    \/ \E r \in OneReq : start_match_publish(r)
    \/ \E r \in OneReq : update_score_load(r)
    \/ \E r \in OneReq : update_score_commit(r)
    \/ \E r \in OneReq : update_score_publish(r)
    \/ \E r \in OneReq : join_match_load(r)
    \/ \E r \in OneReq : join_match_existing(r)
    \/ \E r \in OneReq : join_match_count(r)
    \/ \E r \in OneReq : join_match_commit(r)
    \/ \E r \in OneReq : join_match_publish(r)
    \/ \E r \in OneReq : create_match_load(r)
    \/ \E r \in OneReq : create_match_commit(r)
    \/ \E r \in OneReq : create_match_refresh(r)
    \/ \E r \in OneReq : create_match_players(r)
    \/ \E r \in OneReq : create_match_publish(r)
    \/ \E r \in OneReq : create_match_subscriptions(r)
    \/ \E r \in OneReq : create_match_tokens(r)
    \/ \E rc \in ConnackCodes : on_connect(rc)
    \/ on_disconnect
    \/ \E s \in ClientStates : client_change(s)

SpecOutage == InitOutage /\ [][NextOutage]_vars

\* SpecScore: two update_score requests, one after the other, on a match of
\* any status, while the broker connection comes and goes.
TwoReqs == {1, 2}

InitScore == InitStore(TwoReqs, {1}, MatchStatusEnum)

NextScore ==
    \/ \E r \in TwoReqs, u \in Users, m \in MatchIds, p \in ScorePayloads :
            seq_update_score(r, u, m, p)
    \/ \E r \in TwoReqs : update_score_load(r)
    \/ \E r \in TwoReqs : update_score_commit(r)
    \/ \E r \in TwoReqs : update_score_publish(r)
    \/ \E rc \in ConnackCodes : on_connect(rc)
    \/ on_disconnect

SpecScore == InitScore /\ [][NextScore]_vars

\* SpecCreate: create_field, create_match and join_match requests, one after
\* the other, on a store with one field and no match; the field reference of
\* a creation resolves or not.
NextCreate ==
    \/ \E r \in TwoReqs, u \in Users, p \in CreatePayloads({1, 2}, {1}) :
            seq_create_match(r, u, p)
    \/ \E r \in TwoReqs, u \in Users, m \in MatchIds : seq_join_match(r, u, m)
    \/ \E r \in TwoReqs, u \in Users, p \in CityPayloads(FieldCities) :
            Quiescent /\ issue_create_field(r, u, p)
    \/ \E r \in TwoReqs : create_field_load(r)
    \/ \E r \in TwoReqs : create_field_commit(r)
    \/ \E r \in TwoReqs : create_match_load(r)
    \/ \E r \in TwoReqs : create_match_commit(r)
    \/ \E r \in TwoReqs : create_match_refresh(r)
    \/ \E r \in TwoReqs : create_match_players(r)
    \/ \E r \in TwoReqs : create_match_publish(r)
    \/ \E r \in TwoReqs : create_match_subscriptions(r)
    \/ \E r \in TwoReqs : create_match_tokens(r)
    \/ \E r \in TwoReqs : join_match_load(r)
    \/ \E r \in TwoReqs : join_match_existing(r)
    \/ \E r \in TwoReqs : join_match_count(r)
    \/ \E r \in TwoReqs : join_match_commit(r)
    \/ \E r \in TwoReqs : join_match_publish(r)
    \/ \E i \in TaskIds : run_background_task(i)
    \/ \E rc \in ConnackCodes : on_connect(rc)

SpecCreate == InitDispatch /\ [][NextCreate]_vars

\* SpecTopics: one request of any of the four handlers, on a store whose
\* field is in a city with or without a space in its name, while the broker
\* connection comes and goes.
InitTopics ==
    /\ today = 1
    /\ \E city \in FieldCities : field = <<[city |-> city]>>
    /\ \E m \in InitialMatch({1}, {"scheduled"}) : match = <<m>>
    /\ player_match = <<>>
    /\ fcm_token = [u \in Users |-> IF u = 1 THEN <<"c">> ELSE <<"t">>]
    /\ subscription = <<[user_id |-> NumUsers, city |-> <<"s", " ", "a">>]>>
    /\ mqtt_connected = FALSE
    /\ published = <<>>
    /\ bg_tasks = <<>>
    /\ req = [r \in OneReq |-> ReqIdle]
    /\ client_state = "success"
    /\ firebase_initialized = TRUE
    /\ dispatched = {}
    /\ locador = LocadorRows(Len(fcm_token))

NextTopics ==
    \/ \E r \in OneReq, u \in Users, m \in MatchIds : issue_start_match(r, u, m)
    \/ \E r \in OneReq, u \in Users, m \in MatchIds, p \in ScorePayloads :
            issue_update_score(r, u, m, p)
    \/ \E r \in OneReq, u \in Users, m \in MatchIds : issue_join_match(r, u, m)
    \/ \E r \in OneReq, u \in Users, p \in CreatePayloads({1}, {1}) :
            issue_create_match(r, u, p)
    \/ \E r \in OneReq : start_match_load(r)
    \/ \E r \in OneReq : start_match_commit(r)
    \/ \E r \in OneReq : start_match_publish(r)
    \/ \E r \in OneReq : update_score_load(r)
    \/ \E r \in OneReq : update_score_commit(r)
    \/ \E r \in OneReq : update_score_publish(r)
    \/ \E r \in OneReq : join_match_load(r)
    \/ \E r \in OneReq : join_match_existing(r)
    \/ \E r \in OneReq : join_match_count(r)
    \/ \E r \in OneReq : join_match_commit(r)
    \/ \E r \in OneReq : join_match_publish(r)
    \/ \E r \in OneReq : create_match_load(r)
    \/ \E r \in OneReq : create_match_commit(r)
    \/ \E r \in OneReq : create_match_refresh(r)
    \/ \E r \in OneReq : create_match_players(r)
    \/ \E r \in OneReq : create_match_publish(r)
    \/ \E r \in OneReq : create_match_subscriptions(r)
    \/ \E r \in OneReq : create_match_tokens(r)
    \/ \E rc \in ConnackCodes : on_connect(rc)
    \/ on_disconnect

SpecTopics == InitTopics /\ [][NextTopics]_vars

\* SpecFanOut: two concurrent requests of any of the four handlers, and the
\* push dispatches that were scheduled.
InitFanOut == InitStore(TwoReqs, {1}, {"scheduled"})

NextFanOut ==
    \/ \E r \in TwoReqs, u \in Users, m \in MatchIds : issue_start_match(r, u, m)
    \/ \E r \in TwoReqs, u \in Users, m \in MatchIds, p \in ScorePayloads :
            issue_update_score(r, u, m, p)
    \/ \E r \in TwoReqs, u \in Users, m \in MatchIds : issue_join_match(r, u, m)
    \/ \E r \in TwoReqs, u \in Users, p \in CreatePayloads({1}, {1}) :
            issue_create_match(r, u, p)
    \/ \E r \in TwoReqs : start_match_load(r)
    \/ \E r \in TwoReqs : start_match_commit(r)
    \/ \E r \in TwoReqs : start_match_publish(r)
    \/ \E r \in TwoReqs : update_score_load(r)
    \/ \E r \in TwoReqs : update_score_commit(r)
    \/ \E r \in TwoReqs : update_score_publish(r)
    \/ \E r \in TwoReqs : join_match_load(r)
    \/ \E r \in TwoReqs : join_match_existing(r)
    \/ \E r \in TwoReqs : join_match_count(r)
    \/ \E r \in TwoReqs : join_match_commit(r)
    \/ \E r \in TwoReqs : join_match_publish(r)
    \/ \E r \in TwoReqs : create_match_load(r)
    \/ \E r \in TwoReqs : create_match_commit(r)
    \/ \E r \in TwoReqs : create_match_refresh(r)
    \/ \E r \in TwoReqs : create_match_players(r)
    \/ \E r \in TwoReqs : create_match_publish(r)
    \/ \E r \in TwoReqs : create_match_subscriptions(r)
    \/ \E r \in TwoReqs : create_match_tokens(r)
    \/ \E i \in TaskIds : run_background_task(i)
    \/ \E rc \in ConnackCodes : on_connect(rc)

SpecFanOut == InitFanOut /\ [][NextFanOut]_vars

\* SpecUnsubscribe: unsubscribe_from_region, subscribe_to_region and
\* create_match requests, one after the other; the last user holds a token
\* and is subscribed to the default city, the field's city in another case.
seq_subscribe_to_region(r, u, p) == Quiescent /\ issue_subscribe_to_region(r, u, p)
seq_unsubscribe_from_region(r, u, p) ==
    Quiescent /\ issue_unsubscribe_from_region(r, u, p)

InitUnsubscribe == InitStore(Reqs, {1}, {"scheduled"})

NextUnsubscribe ==
    \/ \E r \in Reqs, u \in Users, p \in CityPayloads(Cities) :
            seq_subscribe_to_region(r, u, p)
    \/ \E r \in Reqs, u \in Users, p \in CityPayloads(Cities) :
            seq_unsubscribe_from_region(r, u, p)
    \/ \E r \in Reqs, u \in Users, p \in CreatePayloads({1}, {1}) :
            seq_create_match(r, u, p)
    \/ \E r \in Reqs : subscribe_to_region_existing(r)
    \/ \E r \in Reqs : subscribe_to_region_commit(r)
    \/ \E r \in Reqs : unsubscribe_from_region_existing(r)
    \/ \E r \in Reqs : unsubscribe_from_region_commit(r)
    \/ \E r \in Reqs : create_match_load(r)
    \/ \E r \in Reqs : create_match_commit(r)
    \/ \E r \in Reqs : create_match_refresh(r)
    \/ \E r \in Reqs : create_match_players(r)
    \/ \E r \in Reqs : create_match_publish(r)
    \/ \E r \in Reqs : create_match_subscriptions(r)
    \/ \E r \in Reqs : create_match_tokens(r)

SpecUnsubscribe == InitUnsubscribe /\ [][NextUnsubscribe]_vars

\* SpecRefresh: a create_match request, and a start_match and a join_match
\* request on the match it creates, the three served concurrently: the other
\* two may commit between the statements of create_match.
NextRefresh ==
    \/ \E u \in Users, p \in CreatePayloads({1}, {1}) : issue_create_match(1, u, p)
    \/ \E u \in Users : issue_start_match(2, u, 2)
    \/ \E u \in Users : issue_join_match(3, u, 2)
    \/ \E r \in ThreeReqs : create_match_load(r)
    \/ \E r \in ThreeReqs : create_match_commit(r)
    \/ \E r \in ThreeReqs : create_match_refresh(r)
    \/ \E r \in ThreeReqs : create_match_players(r)
    \/ \E r \in ThreeReqs : create_match_publish(r)
    \/ \E r \in ThreeReqs : create_match_subscriptions(r)
    \/ \E r \in ThreeReqs : create_match_tokens(r)
    \/ \E r \in ThreeReqs : start_match_load(r)
    \/ \E r \in ThreeReqs : start_match_commit(r)
    \/ \E r \in ThreeReqs : start_match_publish(r)
    \/ \E r \in ThreeReqs : join_match_load(r)
    \/ \E r \in ThreeReqs : join_match_existing(r)
    \/ \E r \in ThreeReqs : join_match_count(r)
    \/ \E r \in ThreeReqs : join_match_commit(r)
    \/ \E r \in ThreeReqs : join_match_publish(r)
    \/ \E rc \in ConnackCodes : on_connect(rc)

SpecRefresh == InitStore(ThreeReqs, {1}, {"scheduled"}) /\ [][NextRefresh]_vars

\* ------------------------------------------------------------------ claims
Rejected(r) == req[r].result.code \in {400, 403, 404}
Served(r, op) == req[r].op = op /\ req[r].pc = "done"
Succeeded(r) == req[r].pc = "done" /\ req[r].result = Ok(req[r].op)

\* C1: in every reachable state every match has at most max_players
\* PlayerMatch rows, whatever the interleaving of the join_match requests.
C1_CapacityRespected ==
    \A m \in DOMAIN match : Cardinality(Roster(m)) <= match[m].max_players

\* C2: two join_match requests by distinct users on a match with
\* max_players = 1, an empty roster and a date that is not past: once both
\* are served, exactly one succeeded, the other was rejected (full or
\* conflict), and the roster holds exactly one PlayerMatch.
C2_ExactlyOneJoins ==
    \A r1 \in DOMAIN req, r2 \in DOMAIN req :
        LET m == req[r1].match_id
        IN  ( /\ r1 # r2
              /\ Served(r1, "join_match") /\ Served(r2, "join_match")
              /\ req[r2].match_id = m
              /\ req[r1].user # req[r2].user
              /\ m \in DOMAIN match
              /\ match[m].max_players = 1
              /\ match[m].date >= today )
            => /\ Cardinality({r \in {r1, r2} : Succeeded(r)}) = 1
               /\ \E r \in {r1, r2} : req[r].result \in {CapacityExceeded, Conflict}
               /\ Cardinality(Roster(m)) = 1

\* C3: in every reachable state there is at most one PlayerMatch row for
\* each (match, user) pair, also when one user joins the same match twice
\* concurrently.
C3_OneRecordPerPair ==
    \A i \in DOMAIN player_match, j \in DOMAIN player_match :
        ( /\ player_match[i].match_id = player_match[j].match_id
          /\ player_match[i].user_id = player_match[j].user_id ) => i = j

\* C4: a request has published, or scheduled a push dispatch, only if its
\* database commit has happened; a rejected request (404, 403, 400) has
\* published nothing and scheduled nothing.
C4_SideEffectsAfterCommit ==
    \A r \in DOMAIN req :
        /\ (req[r].npub > 0 \/ req[r].nsched > 0) => req[r].committed
        /\ Rejected(r) => (req[r].npub = 0 /\ req[r].nsched = 0 /\ ~req[r].committed)

C4_Witness ==
    /\ \E r \in DOMAIN req :
        /\ Served(r, "create_match") /\ Succeeded(r)
        /\ req[r].committed /\ req[r].npub = 1 /\ req[r].nsched = 1
        /\ Len(bg_tasks) = 1
    /\ \E r \in DOMAIN req : Served(r, "join_match") /\ req[r].npub = 1 /\ Len(published) > 0
    /\ mqtt_connected

\* C5: no step makes a match's status regress: an in_progress match never
\* returns to scheduled, and a canceled or completed match keeps its status.
C5_StatusMonotonic ==
    [][\A m \in DOMAIN match :
          /\ match[m].status = "in_progress" => match'[m].status # "scheduled"
          /\ match[m].status \in {"canceled", "completed"}
                => match'[m].status = match[m].status]_vars

C5_Witness ==
    \E m \in DOMAIN match, r \in DOMAIN req, q \in DOMAIN req :
        /\ match[m].status = "in_progress"
        /\ Served(r, "start_match") /\ Succeeded(r) /\ req[r].match_id = m
        /\ req[r].db_match.status = "scheduled"
        /\ q # r /\ req[q].match_id = m /\ Succeeded(q) /\ req[q].committed
        /\ req[q].op \in {"update_score", "join_match", "start_match"}
        /\ req[q].db_match.status = "in_progress"

\* C6: start_match by the creator on a match whose status is not scheduled
\* is rejected with InvalidState (400), commits nothing and publishes no
\* match_started event.
C6_StartRequiresScheduled ==
    \A r \in DOMAIN req :
        ( /\ req[r].op = "start_match"
          /\ req[r].pc \notin {"idle", "load"}
          /\ req[r].db_match # MatchNone
          /\ req[r].db_match.creator_id = req[r].user
          /\ req[r].db_match.status # "scheduled" )
        => /\ req[r].result.code = 400
           /\ ~req[r].committed
           /\ req[r].npub = 0

\* C7: start_match by a user who is not the creator of the (existing) match
\* is rejected with 403 whatever the match's status, commits nothing and
\* publishes nothing.
C7_StartForbidden ==
    \A r \in DOMAIN req :
        ( /\ req[r].op = "start_match"
          /\ req[r].pc \notin {"idle", "load"}
          /\ req[r].db_match # MatchNone
          /\ req[r].db_match.creator_id # req[r].user )
        => /\ req[r].pc = "done"
           /\ req[r].result = StartForbidden
           /\ ~req[r].committed
           /\ req[r].npub = 0

C7_Witness ==
    \E r \in DOMAIN req :
        /\ Served(r, "start_match")
        /\ req[r].result = StartForbidden
        /\ req[r].db_match.status = "completed"
        /\ req[r].db_match.creator_id # req[r].user

\* C8: join_match on a match dated strictly before the day it is checked on
\* is rejected as a past match, inserts no PlayerMatch and publishes
\* nothing, whoever the user and whatever the roster; a match dated that day
\* or later is not rejected for this reason.
C8_PastMatchRejected ==
    \A r \in DOMAIN req :
        ( /\ req[r].op = "join_match"
          /\ req[r].pc \notin {"idle", "load"}
          /\ req[r].db_match # MatchNone )
        => IF req[r].db_match.date < req[r].today_read
           THEN /\ req[r].pc = "done"
                /\ req[r].result = Past
                /\ req[r].row = 0 /\ ~req[r].committed
                /\ req[r].npub = 0
           ELSE req[r].result # Past

C8_Witness ==
    /\ \E r \in DOMAIN req :
        /\ Served(r, "join_match") /\ req[r].result = Past
        /\ Roster(req[r].match_id) # {}
    /\ \E r \in DOMAIN req :
        /\ Served(r, "join_match") /\ Succeeded(r)
        /\ req[r].db_match.date = req[r].today_read

\* the last request served, with no request after it: the store is as that
\* request left it
Latest(r) == /\ req[r].pc = "done"
             /\ \A q \in DOMAIN req : q > r => req[q].pc = "idle"

\* the roster of r's match as r found it: without the row r inserted
RosterBefore(r) == Roster(req[r].match_id) \ {req[r].row}
HadJoined(r) == \E i \in RosterBefore(r) : player_match[i].user_id = req[r].user
WasFull(r) == Cardinality(RosterBefore(r)) >= req[r].db_match.max_players
Untouched(r) == req[r].row = 0 /\ ~req[r].committed /\ req[r].npub = 0

\* C9 as stated: in a sequential execution, a join by a user already in the
\* roster is rejected with Conflict, a join on a full roster with
\* CapacityExceeded, Conflict when both; the roster is unchanged and nothing
\* is published.
C9_AsStated ==
    \A r \in DOMAIN req :
        (req[r].op = "join_match" /\ Latest(r) /\ req[r].db_match # MatchNone)
        => /\ HadJoined(r) => (req[r].result = Conflict /\ Untouched(r))
           /\ (WasFull(r) /\ ~HadJoined(r))
                => (req[r].result = CapacityExceeded /\ Untouched(r))

\* C9 amended: the same for a match whose date is not before the current
\* date (a past match is rejected as past before the roster is looked at).
C9_Sequential ==
    \A r \in DOMAIN req :
        ( /\ req[r].op = "join_match" /\ Latest(r) /\ req[r].db_match # MatchNone
          /\ req[r].db_match.date >= req[r].today_read )
        => /\ HadJoined(r) => (req[r].result = Conflict /\ Untouched(r))
           /\ (WasFull(r) /\ ~HadJoined(r))
                => (req[r].result = CapacityExceeded /\ Untouched(r))

C9_Witness ==
    /\ \E r \in DOMAIN req :
        /\ req[r].op = "join_match" /\ Latest(r)
        /\ HadJoined(r) /\ WasFull(r) /\ req[r].result = Conflict
    /\ \E r \in DOMAIN req :
        /\ Served(r, "join_match") /\ req[r].result = CapacityExceeded

\* C10: once all the update_score requests of a match are served, and at
\* least two succeeded, the persisted (score_a, score_b) is the pair one of
\* them asked for.
C10_LastWriteWins ==
    \A m \in DOMAIN match :
        LET S == {r \in DOMAIN req : req[r].op = "update_score" /\ req[r].match_id = m}
        IN  ( /\ Cardinality(S) >= 2
              /\ \A r \in S : req[r].pc = "done" /\ Succeeded(r) )
            => \E r \in S : /\ match[m].score_a = req[r].payload.score_a
                            /\ match[m].score_b = req[r].payload.score_b

\* the state change request r committed is still in the store
Kept(r) ==
    LET q == req[r]
    IN  CASE q.op = "create_match" ->
                q.match_id \in DOMAIN match /\ match[q.match_id].creator_id = q.user
          [] q.op = "join_match" ->
                /\ q.row \in DOMAIN player_match
                /\ player_match[q.row] = [match_id |-> q.match_id, user_id |-> q.user]
          [] q.op = "start_match" -> match[q.match_id].status = "in_progress"
          [] q.op = "update_score" ->
                Latest(r) => /\ match[q.match_id].score_a = q.payload.score_a
                             /\ match[q.match_id].score_b = q.payload.score_b
          [] OTHER -> TRUE

\* C11: a publish attempted while the broker connection is down (not
\* connected, or the client's publish raising or returning an error code)
\* returns False and raises nothing: no request is answered 500, and the
\* create_match, join_match, start_match or update_score that called it
\* keeps its committed change and answers success.
C11_PublishFailureSwallowed ==
    \A r \in DOMAIN req :
        /\ req[r].result # InternalServerError
        /\ req[r].pub_ret # "raise"
        /\ (req[r].pub_ret # "none" /\ ( \/ ~req[r].pub_env.connected
                                         \/ req[r].pub_env.outcome # "success" ))
              => /\ req[r].pub_ret = "False"
                 /\ req[r].committed
                 /\ Kept(r)
                 /\ req[r].pc = "done" => Succeeded(r)

C11_Witness ==
    \E r \in DOMAIN req :
        /\ Served(r, "create_match") /\ Succeeded(r)
        /\ req[r].pub_ret = "False"
        /\ req[r].pub_env = [connected |-> TRUE, outcome |-> "raises"]
        /\ req[r].nsched = 1
        /\ match[req[r].match_id].creator_id = req[r].user
        /\ published = <<>>

\* two city names that are equal when the case of the letters is ignored
SameLetter(a, b) ==
    \/ a = b
    \/ {a, b} \in {{"A", "a"}, {"B", "b"}, {"S", "s"}}

EqualIgnoringCase(c, d) ==
    /\ Len(c) = Len(d)
    /\ \A i \in DOMAIN c : SameLetter(c[i], d[i])

\* the users the creation of request r is to notify: subscribed to the
\* field's city, not the creator, holding a token
Recipients(r) ==
    {u \in DOMAIN fcm_token :
        /\ u # req[r].user
        /\ fcm_token[u] \notin {None, <<>>}
        /\ \E sub \in Rows(subscription) :
              /\ sub.user_id = u
              /\ EqualIgnoringCase(sub.city, field[req[r].payload.field_id].city)}

TasksOf(r) == {i \in DOMAIN bg_tasks : bg_tasks[i].req = r}

\* C12: once a create_match on a field of city C by creator U is served, the
\* tokens handed to the push dispatch are the tokens of exactly the users
\* subscribed to C (ignoring case) other than U who hold a token; when there
\* are none no dispatch is scheduled; the creation succeeds either way.
C12_RecipientsResolved ==
    \A r \in DOMAIN req :
        Served(r, "create_match") =>
            /\ Succeeded(r)
            /\ IF Recipients(r) = {}
               THEN TasksOf(r) = {} /\ req[r].nsched = 0
               ELSE /\ Cardinality(TasksOf(r)) = 1
                    /\ \A i \in TasksOf(r) :
                         Rows(bg_tasks[i].tokens) = {fcm_token[u] : u \in Recipients(r)}

C12_Witness ==
    \E r \in DOMAIN req :
        /\ Served(r, "create_match")
        /\ fcm_token[req[r].user] = <<"t">>
        /\ \E sub \in Rows(subscription) :
              sub.user_id = req[r].user /\ sub.city = <<"B", "r">>
        /\ \E u \in Recipients(r), sub \in Rows(subscription) :
              sub.user_id = u /\ sub.city = <<"b", "r">>
        /\ \E u \in DOMAIN fcm_token, sub \in Rows(subscription) :
              sub.user_id = u /\ sub.city = <<"b", "r">> /\ fcm_token[u] = None
        /\ \E i \in TasksOf(r) : bg_tasks[i].tokens = << <<" ", "t">> >>

\* C13: the token list passed to the provider's multicast call never holds
\* the same token twice.
C13_NoDuplicateTargets ==
    \A d \in dispatched :
        d.result.invoked =>
            \A i \in DOMAIN d.result.valid_tokens, j \in DOMAIN d.result.valid_tokens :
                d.result.valid_tokens[i] = d.result.valid_tokens[j] => i = j

\* C14: send_batch_push_notifications called with a list that is empty once
\* the empty and blank tokens are filtered out does not call the provider
\* and returns a success (nothing to send), not the failure value.
C14_NothingToSendIsSuccess ==
    \A d \in dispatched :
        (firebase_initialized /\ valid_tokens_of(d.tokens) = <<>>) =>
            /\ ~d.result.invoked
            /\ d.result.returned # "False"

\* what a provider answer amounts to: successes, failures, failed indices
Summary(responses) ==
    [successCount |-> Cardinality({i \in DOMAIN responses : responses[i]}),
     failureCount |-> Cardinality({i \in DOMAIN responses : ~responses[i]}),
     failedTargets |-> {i \in DOMAIN responses : ~responses[i]}]

\* C15: the result of a dispatch reports the provider's success count,
\* failure count and failed targets: whatever the provider answers, a
\* result equal to the one returned comes from an answer with the same
\* counts and the same failed targets.
C15_ResultReportsCounts ==
    \A d \in dispatched :
        (d.result.invoked /\ ~d.result.raised) =>
            \A other \in [DOMAIN d.result.responses -> BOOLEAN] :
                send_batch_push_notifications(firebase_initialized, d.tokens,
                        [raises |-> FALSE, responses |-> other]).returned
                    = d.result.returned
                => Summary(other) = Summary(d.result.responses)

\* C16: whatever the provider does (some or all targets failing, the call
\* raising, the provider not initialised), send_batch_push_notifications
\* raises nothing, a failed target leaves the others as the provider
\* answered them, and the dispatch changes neither the answer of the
\* create_match that scheduled it nor the stored rows.
C16_ProviderFailureContained ==
    /\ [](\A d \in dispatched :
            /\ d.result.returned \in {"True", "False"}
            /\ (d.result.invoked /\ ~d.result.raised) =>
                  /\ d.result.success_count = Summary(d.result.responses).successCount
                  /\ d.result.failure_count = Summary(d.result.responses).failureCount
                  /\ d.result.errors = Summary(d.result.responses).failedTargets
                  /\ (d.result.success_count > 0 <=> d.result.returned = "True")
            /\ Succeeded(bg_tasks[d.task].req) /\ Kept(bg_tasks[d.task].req))
    /\ [][dispatched' # dispatched =>
            /\ req' = req
            /\ <<match, player_match, fcm_token, subscription>>'
                 = <<match, player_match, fcm_token, subscription>>]_vars

C16_Witness ==
    /\ \E d \in dispatched :
          /\ d.result.responses = <<TRUE, FALSE>>
          /\ d.result.returned = "True"
          /\ Succeeded(bg_tasks[d.task].req)
    /\ firebase_initialized

\* the users who hold token t
\* C17: in every reachable state a token is held by at most one user, and
\* when a register_fcm_token request of user U completes (its commit), U
\* holds the token it registered and no other user does, whatever the
\* interleaving of the requests.
C17_TokenSingleOwner ==
    /\ [](\A u \in DOMAIN fcm_token, v \in DOMAIN fcm_token :
            (fcm_token[u] = fcm_token[v] /\ fcm_token[u] # None) => u = v)
    /\ [][\A r \in DOMAIN req :
            (At(r, "register_fcm_token", "commit") /\ req'[r].committed)
                => {u \in DOMAIN fcm_token' :
                        fcm_token'[u] = req[r].payload.fcm_token} = {req[r].user}]_vars

\* C18: in every reachable state the subscription table holds at most one
\* row for each (user, city), whatever the interleaving of subscribe,
\* unsubscribe, login and user creation; a subscribe that finds the city
\* already subscribed adds no row and returns normally.
C18_OneSubscriptionPerPair ==
    /\ \A i \in DOMAIN subscription, j \in DOMAIN subscription :
          (subscription[i] = subscription[j] /\ subscription[i] # Deleted) => i = j
    /\ \A r \in DOMAIN req :
          (Served(r, "subscribe_to_region") /\ req[r].existing_sub # 0)
              => Succeeded(r) /\ ~req[r].committed /\ req[r].row = 0

C18_Witness ==
    /\ \E r \in DOMAIN req :
          /\ Served(r, "subscribe_to_region") /\ req[r].committed
          /\ subscription[req[r].row] = [user_id |-> req[r].user, city |-> default_city]
    /\ \E r \in DOMAIN req :
          /\ Served(r, "login_for_access_token")
          /\ req[r].result = InternalServerError
          /\ req[r].existing_sub = 0

\* the matches that create_match requests made
Created == {req[r].match_id : r \in {x \in DOMAIN req :
                req[x].op = "create_match" /\ req[x].committed}}

\* C19: for every match created by a create_match request, a player_joined
\* envelope of the match is published only after the new_match envelope of
\* the match was, whatever the interleaving of the create_match with the
\* join_match requests of other users.
C19_NewMatchBeforeJoined ==
    \A j \in DOMAIN published :
        ( /\ published[j].payload.event = "player_joined"
          /\ published[j].topic[2] \in Created
          /\ published[j].payload.data.user_id
                # match[published[j].topic[2]].creator_id )
        => \E i \in 1..(j - 1) :
              /\ published[i].payload.event = "new_match"
              /\ published[i].payload.data.match.id = published[j].topic[2]

\* C20: the response of create_match is sent while the dispatch it
\* scheduled has not run, a dispatch runs only once the response of its
\* request is sent, and every scheduled dispatch eventually runs to its end.
C20_DispatchAfterResponse ==
    /\ [][\A r \in DOMAIN req :
            (req[r].pc # "done" /\ req'[r].pc = "done")
                => \A i \in DOMAIN bg_tasks' :
                      bg_tasks'[i].req = r => ~(\E d \in dispatched' : d.task = i)]_vars
    /\ [](\A d \in dispatched : req[bg_tasks[d.task].req].pc = "done")
    /\ \A i \in TaskIds : (i \in DOMAIN bg_tasks) ~> Dispatched(i)

C20_Witness ==
    /\ Cardinality(dispatched) = 2
    /\ \A r \in DOMAIN req : Served(r, "create_match") /\ Succeeded(r) /\ req[r].nsched = 1
    /\ \E d \in dispatched : d.result.returned = "True"

\* the envelope update_score publishes for request r
ScoreEnvelope(r) ==
    [topic |-> <<MQTT_TOPIC_MATCH_BASE, req[r].match_id, "live_updates">>,
     payload |-> [event |-> "score_update",
                  data |-> [score_a |-> req[r].payload.score_a,
                            score_b |-> req[r].payload.score_b]],
     qos |-> 1]

\* request r is a successful update_score that repeats the successful
\* update_score served just before it
Repeats(r) ==
    /\ r - 1 \in DOMAIN req
    /\ req[r].op = "update_score" /\ Served(r - 1, "update_score")
    /\ Succeeded(r - 1)
    /\ req[r].match_id = req[r - 1].match_id
    /\ req[r].user = req[r - 1].user
    /\ req[r].payload = req[r - 1].payload

\* C21: a second update_score by the creator, in sequence, with the scores of
\* the first leaves the persisted match as the first left it (its commit
\* changes no row), and each of the two calls publishes its own score_update
\* envelope when the connection is up: two equal envelopes, one per call.
C21_UpdateScoreIdempotent ==
    /\ [][\A r \in DOMAIN req :
            (Repeats(r) /\ req[r].pc = "commit" /\ req'[r].committed)
                => match' = match /\ player_match' = player_match]_vars
    /\ [](\A r \in DOMAIN req :
            ( /\ Repeats(r) /\ Latest(r) /\ Succeeded(r)
              /\ req[r].pub_ret = "True" /\ req[r - 1].pub_ret = "True" )
            => /\ Len(published) >= 2
               /\ published[Len(published)] = ScoreEnvelope(r)
               /\ published[Len(published) - 1] = ScoreEnvelope(r - 1)
               /\ match[req[r].match_id].score_a = req[r].payload.score_a
               /\ match[req[r].match_id].score_b = req[r].payload.score_b)
    /\ [](\A r \in DOMAIN req :
            ( /\ req[r].op = "update_score" /\ req[r].npub = 1
              /\ req[r].pub_env = [connected |-> TRUE, outcome |-> "success"] )
            => req[r].pub_ret = "True")

C21_Witness ==
    \E r \in DOMAIN req :
        /\ Repeats(r) /\ Latest(r) /\ Succeeded(r)
        /\ req[r].payload.score_a = 1 /\ req[r].payload.score_b = 0
        /\ req[r].pub_ret = "True" /\ req[r - 1].pub_ret = "True"
        /\ published = <<ScoreEnvelope(r - 1), ScoreEnvelope(r)>>
        /\ match[req[r].match_id].status = "completed"

\* C22: update_score by the creator of the match succeeds and sets both
\* scores to the values asked for, whatever the status of the match; it
\* fails only with 404 for a match that does not exist and with 403 for a
\* caller who is not the creator, and a failing call changes no score and
\* publishes nothing.
C22_UpdateScoreAnyStatus ==
    /\ [](\A r \in DOMAIN req :
            (req[r].op = "update_score" /\ req[r].pc \notin {"idle", "load"}) =>
                IF req[r].db_match = MatchNone
                THEN /\ req[r].pc = "done" /\ req[r].result = MatchNotFound
                     /\ req[r].match_id \notin DOMAIN match
                     /\ ~req[r].committed /\ req[r].npub = 0
                ELSE IF req[r].db_match.creator_id # req[r].user
                THEN /\ req[r].pc = "done" /\ req[r].result = ScoreForbidden
                     /\ ~req[r].committed /\ req[r].npub = 0
                ELSE /\ req[r].pc = "done" => Succeeded(r)
                     /\ ((req[r].committed /\ Latest(r)) \/ req[r].pc = "publish")
                           => /\ match[req[r].match_id].score_a = req[r].payload.score_a
                              /\ match[req[r].match_id].score_b = req[r].payload.score_b
                              /\ match[req[r].match_id].status = req[r].db_match.status)
    /\ [][\A r \in DOMAIN req :
            (req[r].pc # "done" /\ req'[r].op = "update_score"
                /\ req'[r].pc = "done"
                /\ req'[r].result # Ok("update_score"))
            => /\ req'[r].result \in {MatchNotFound, ScoreForbidden}
               /\ match' = match
               /\ published' = published]_vars

C22_Witness ==
    /\ \E r \in DOMAIN req :
          /\ Served(r, "update_score") /\ Succeeded(r) /\ Latest(r)
          /\ req[r].db_match.status = "canceled"
          /\ req[r].db_match.score_a = 0 /\ req[r].db_match.score_b = 0
          /\ match[req[r].match_id].score_a = 1
          /\ match[req[r].match_id].score_b = 1
          /\ match[req[r].match_id].status = "canceled"
    /\ \E r \in DOMAIN req :
          Served(r, "update_score") /\ req[r].result = ScoreForbidden

\* C23: a create_match whose field does not resolve is answered 404, creates
\* no match, publishes nothing and schedules no dispatch; one whose field
\* resolves creates a match that is scheduled, has both scores 0 and has no
\* player (the creator is not put on the roster).
C23_CreateMatchOutcome ==
    /\ [](\A r \in DOMAIN req :
            (req[r].op = "create_match" /\ req[r].pc \notin {"idle", "load"}) =>
                IF req[r].result = FieldNotFound(req[r].payload.field_id)
                THEN /\ req[r].pc = "done"
                     /\ ~req[r].committed /\ req[r].match_id = 0
                     /\ req[r].npub = 0 /\ req[r].nsched = 0
                     /\ TasksOf(r) = {}
                ELSE /\ req[r].pc = "done" => Succeeded(r)
                     /\ req[r].committed =>
                          /\ req[r].match_id \in DOMAIN match
                          /\ match[req[r].match_id].creator_id = req[r].user
                          /\ match[req[r].match_id].field_id = req[r].payload.field_id
                          /\ (Latest(r) \/ InFlight(r)) =>
                                /\ match[req[r].match_id].status = "scheduled"
                                /\ match[req[r].match_id].score_a = 0
                                /\ match[req[r].match_id].score_b = 0
                                /\ Roster(req[r].match_id) = {})
    /\ [][\A r \in DOMAIN req :
            /\ (req[r].op = "create_match" /\ req[r].pc = "load"
                    /\ req'[r].pc # "load")
                  => IF req[r].payload.field_id \notin DOMAIN field
                     THEN req'[r] = Respond(req[r], FieldNotFound(req[r].payload.field_id))
                     ELSE req'[r].pc # "done"
            /\ (req[r].pc # "done" /\ req'[r].op = "create_match"
                    /\ req'[r].result = FieldNotFound(req'[r].payload.field_id))
                  => /\ match' = match /\ player_match' = player_match
                     /\ published' = published /\ bg_tasks' = bg_tasks
            /\ (req[r].op = "create_match" /\ ~req[r].committed /\ req'[r].committed)
                  => /\ Len(match') = Len(match) + 1
                     /\ player_match' = player_match
                     /\ \A i \in DOMAIN player_match' :
                           player_match'[i].match_id # Len(match')]_vars

C23_Witness ==
    /\ \E r \in DOMAIN req :
          /\ Served(r, "create_match")
          /\ req[r].result = HTTPException(404, "Quadra com id 2 nao encontrada")
          /\ req[r].payload.field_id = 2
    /\ \E r \in DOMAIN req :
          /\ Served(r, "create_match") /\ Succeeded(r) /\ Latest(r)
          /\ match = <<NewMatch(1, 1, req[r].user, 1, req[r].payload.max_players)>>
          /\ player_match = <<>>
          /\ req[r].nsched = 1

\* the event kind of each operation
EventKind(op) ==
    CASE op = "create_match" -> "new_match"
      [] op = "join_match" -> "player_joined"
      [] op = "start_match" -> "match_started"
      [] op = "update_score" -> "score_update"

\* n is city in lower case with a hyphen for each space
IsNormalized(n, city) ==
    /\ Len(n) = Len(city)
    /\ \A i \in DOMAIN city :
          IF city[i] = " " THEN n[i] = "-"
          ELSE SameLetter(n[i], city[i]) /\ n[i] \notin {"A", "B", "S"}

\* topic is the topic of request r's event kind, under the two base names
OnTopicOfKind(topic, r, regional_base, match_base) ==
    LET q == req[r]
    IN  CASE q.op = "create_match" ->
                /\ Len(topic) = 2 /\ topic[1] = regional_base
                /\ IsNormalized(topic[2], field[q.payload.field_id].city)
          [] q.op \in {"join_match", "start_match"} ->
                topic = <<match_base, q.match_id, "updates">>
          [] q.op = "update_score" ->
                topic = <<match_base, q.match_id, "live_updates">>

\* each successful operation has attempted exactly one publish and no
\* operation attempts more
OnePublishPerOperation ==
    \A r \in DOMAIN req :
        /\ req[r].npub <= 1
        /\ (req[r].op \in {"create_match", "join_match", "start_match",
                           "update_score"} /\ Succeeded(r))
              => req[r].npub = 1
        /\ (Served(r, "create_match") /\ Succeeded(r))
              => Cardinality({j \in DOMAIN published :
                    published[j].payload.event = "new_match"}) <= 1

\* a step: what an attempt gives the client is one envelope of the
\* operation's event kind on the topic of that kind
PublishOnKindTopic(regional_base, match_base) ==
    \A r \in DOMAIN req :
        IF req'[r].npub = req[r].npub + 1
        THEN \/ published' = published /\ req'[r].pub_ret = "False"
             \/ /\ req'[r].pub_ret = "True"
                /\ Len(published') = Len(published) + 1
                /\ SubSeq(published', 1, Len(published)) = published
                /\ published'[Len(published')].payload.event = EventKind(req[r].op)
                /\ OnTopicOfKind(published'[Len(published')].topic, r,
                                 regional_base, match_base)
        ELSE published' = published

\* C24 as stated: each successful operation attempts exactly one publish, on
\* the topic of its event kind: new_match on matches/<city in lower case,
\* hyphens for spaces>, player_joined and match_started on
\* match/<matchId>/updates, score_update on match/<matchId>/live_updates.
C24_AsStated ==
    /\ []OnePublishPerOperation
    /\ [][PublishOnKindTopic("matches", "match")]_vars


NoFanOutOps == {"join_match", "start_match", "update_score"}

\* C25: only create_match triggers the region fan-out: a join_match,
\* start_match or update_score request never resolves subscribers, never
\* schedules a push dispatch and none of its steps runs one; every dispatch
\* scheduled or run comes from a create_match.
C25_OnlyCreateFansOut ==
    /\ [](/\ \A r \in DOMAIN req :
               req[r].op \in NoFanOutOps =>
                   /\ req[r].subscribed_user_ids = {}
                   /\ req[r].nsched = 0
                   /\ TasksOf(r) = {}
          /\ \A i \in DOMAIN bg_tasks :
               /\ bg_tasks[i].req \in DOMAIN req
               /\ req[bg_tasks[i].req].op = "create_match"
          /\ \A d \in dispatched : d.task \in DOMAIN bg_tasks)
    /\ [][\A r \in DOMAIN req :
            (req'[r] # req[r] /\ req'[r].op \in NoFanOutOps)
                => bg_tasks' = bg_tasks /\ dispatched' = dispatched]_vars

C25_Witness ==
    /\ \E r \in DOMAIN req :
          /\ Served(r, "create_match") /\ Succeeded(r) /\ req[r].nsched = 1
          /\ \E d \in dispatched : bg_tasks[d.task].req = r
    /\ \E r \in DOMAIN req :
          /\ Served(r, "join_match") /\ Succeeded(r) /\ req[r].npub = 1
          /\ req[r].match_id = 2
    /\ Len(bg_tasks) = 1 /\ Cardinality(dispatched) = 1

\* C26: every score_update envelope (live feed) is published with a
\* strictly stronger delivery level than every player_joined and
\* match_started envelope (lobby feed).
C26_LiveStrongerThanLobby ==
    \A i \in DOMAIN published, j \in DOMAIN published :
        ( /\ published[i].payload.event = "score_update"
          /\ published[j].payload.event \in {"player_joined", "match_started"} )
        => published[i].qos > published[j].qos

\* request q, served, removed the default-city subscription of the user of
\* request r, who has not asked to subscribe to it since
UnsubscribedBefore(q, r) ==
    /\ q < r
    /\ Served(q, "unsubscribe_from_region") /\ req[q].committed
    /\ req[q].user = req[r].user
    /\ req[q].payload.city = default_city
    /\ \A s \in DOMAIN req :
          ~(req[s].op = "subscribe_to_region" /\ req[s].user = req[r].user)

\* C27: the default-city subscription is created on a user's first
\* successful authentication (or registration) only: a failed login creates
\* no subscription, and once the user has unsubscribed from the default
\* city a later successful login leaves the user unsubscribed.
C27_AutoSubscribeOnlyOnce ==
    \A r \in DOMAIN req :
        /\ (Served(r, "login_for_access_token") /\ req[r].result = Unauthorized)
              => ~req[r].committed /\ req[r].row = 0
        /\ (Served(r, "login_for_access_token") /\ Succeeded(r) /\ Latest(r))
              => \A q \in DOMAIN req :
                    UnsubscribedBefore(q, r)
                        => QuerySubscription(req[r].user, default_city) = 0

\* the player_joined envelopes of the log on the lobby topic of match m
JoinedOn(m) ==
    {j \in DOMAIN published :
        /\ published[j].payload.event = "player_joined"
        /\ published[j].topic = <<MQTT_TOPIC_MATCH_BASE, m, "updates">>}

\* the size of the roster of request r's match right after r's commit
RosterAfterCommit(r) ==
    Cardinality({i \in Roster(req[r].match_id) : i <= req[r].row})

\* C28: on the lobby topic of each match the player_joined envelopes are
\* published in the order in which their joins were committed, each carries
\* the size of the persisted roster right after its join's commit, and so
\* successive envelopes carry strictly increasing counts, however the
\* concurrent join_match requests interleave.
C28_JoinedInCommitOrder ==
    /\ [](\A m \in DOMAIN match : \A i \in JoinedOn(m), j \in JoinedOn(m) :
            i < j => published[i].payload.data.player_count
                        < published[j].payload.data.player_count)
    /\ [][\A r \in DOMAIN req :
            (req[r].op = "join_match" /\ req[r].pc = "publish"
                /\ Len(published') = Len(published) + 1)
            => /\ published'[Len(published')].payload.data.player_count
                    = RosterAfterCommit(r)
               /\ \A q \in DOMAIN req :
                    ( /\ req[q].op = "join_match" /\ req[q].committed
                      /\ req[q].match_id = req[r].match_id
                      /\ req[q].row < req[r].row )
                    => req[q].npub = 1]_vars

\* request q, served before request r was issued, is an unsubscribe from
\* the city of r's field (ignoring case) by a user who has not asked to
\* subscribe to such a city since
UnsubscribedFromCityOf(q, r) ==
    /\ q < r
    /\ Served(q, "unsubscribe_from_region") /\ Succeeded(q)
    /\ EqualIgnoringCase(req[q].payload.city, field[req[r].payload.field_id].city)
    /\ \A s \in DOMAIN req :
          ~(req[s].op = "subscribe_to_region" /\ req[s].user = req[q].user)

\* C29: once unsubscribe_from_region(city) by user U is served, no later
\* create_match on a field whose city equals that city ignoring case puts
\* U's token among its push targets, until U subscribes again, also when
\* the stored subscription and the requested city differ in letter case.
C29_UnsubscribedNotNotified ==
    \A r \in DOMAIN req, q \in DOMAIN req :
        ( /\ req[r].op = "create_match"
          /\ req[r].payload.field_id \in DOMAIN field
          /\ UnsubscribedFromCityOf(q, r) )
        => \A i \in TasksOf(r) :
              fcm_token[req[q].user] \notin Rows(bg_tasks[i].tokens)

\* row b is row a in every column outside cols
SameBut(a, b, cols) == \A c \in DOMAIN a : c \notin cols => b[c] = a[c]

\* the step changes, of the matches there were, at most the columns cols of
\* match m
OnlyColumns(m, cols) ==
    /\ DOMAIN match \subseteq DOMAIN match'
    /\ \A n \in DOMAIN match :
          IF n = m THEN SameBut(match[n], match'[n], cols) ELSE match'[n] = match[n]

\* the step changes, of the roster rows, at most by adding one row of match m
OnlyRosterOf(m) ==
    \/ player_match' = player_match
    \/ /\ Len(player_match') = Len(player_match) + 1
       /\ SubSeq(player_match', 1, Len(player_match)) = player_match
       /\ player_match'[Len(player_match')].match_id = m

\* C30: each operation changes only its own part of a match: join_match
\* leaves status and scores unchanged, start_match leaves the roster and the
\* scores unchanged, update_score leaves the status and the roster
\* unchanged, and no operation on one match changes the status, the scores
\* or the roster of another match.
C30_FrameOfEachOperation ==
    [][\A r \in DOMAIN req :
          req'[r] # req[r] =>
              CASE req'[r].op = "join_match" ->
                      match' = match /\ OnlyRosterOf(req'[r].match_id)
                [] req'[r].op = "start_match" ->
                      /\ OnlyColumns(req'[r].match_id, {"status"})
                      /\ DOMAIN match' = DOMAIN match
                      /\ player_match' = player_match
                [] req'[r].op = "update_score" ->
                      /\ OnlyColumns(req'[r].match_id, {"score_a", "score_b"})
                      /\ DOMAIN match' = DOMAIN match
                      /\ player_match' = player_match
                [] req'[r].op = "create_match" ->
                      OnlyColumns(0, {}) /\ player_match' = player_match
                [] OTHER -> match' = match /\ player_match' = player_match]_vars

C30_Witness ==
    /\ \E r \in DOMAIN req :
          /\ Served(r, "update_score") /\ Succeeded(r)
          /\ req[r].db_match.status = "scheduled"
          /\ req[r].payload.score_a = 1 /\ req[r].payload.score_b = 1
          /\ match[req[r].match_id] =
                [req[r].db_match EXCEPT !.status = "in_progress",
                                        !.score_a = 1, !.score_b = 1]
    /\ \E r \in DOMAIN req :
          /\ Served(r, "start_match") /\ Succeeded(r)
          /\ req[r].db_match.score_a = 0 /\ req[r].db_match.score_b = 0
          /\ req[r].db_match.status = "scheduled"

====
